---------------------------- MODULE Spec2Model ----------------------------
(***************************************************************************)
(* Tool-calling orchestration of examples/10_llm_interaction:              *)
(*   - StreamingToolHandler         (04_streaming_with_tools.py)           *)
(*   - StatefulConversationHandler  (05_stateful_conversation.py)          *)
(*   - ToolHandler and multi_step_tool_calling (03_tool_calling.py)        *)
(* One behaviour drives one of the three programs (variable mode); the     *)
(* model call, the stream and the tool callables are the environment.      *)
(* StatefulConversationHandler is driven either by one process_message     *)
(* call at a time, or by concurrent calls on different sessions, or by     *)
(* concurrent calls on one session.  StreamingToolHandler is driven by     *)
(* one stream_with_tools turn at a time, or by two turns that the caller   *)
(* runs concurrently on the one handler.  In mode "registry" a behaviour   *)
(* registers tools on a new handler of one of the three classes; in the   *)
(* other modes the handler starts with its tools registered.              *)
(*                                                                         *)
(* Argument text is a sequence of one-character tokens over "{", "}" and   *)
(* "1"; Python's falsy None and "" are both the empty value.               *)
(***************************************************************************)
EXTENDS Integers, Sequences, FiniteSets, TLC

VARIABLES
    mode,                \* which program this behaviour runs
    \* ---- StreamingToolHandler
    current_tool_calls,  \* self.current_tool_calls, a dict in insertion order
    spc,                 \* position of stream_with_tools
    sidx,                \* position of the loop of _execute_pending_tools
    events,              \* TOOL_CALL_END, TOOL_RESULT, END and ERROR events
                         \* yielded by the current turn, in order
    progress,            \* TEXT, TOOL_CALL_START and TOOL_CALL_ARGS events
                         \* yielded by the current turn, kept per call id
    fed,                 \* per call id: the argument chunks fed in this turn
    touched,             \* call ids that received a fragment in this turn
    sinvoked,            \* callables invoked by the current turn: <<id, name>>
    sturns,              \* stream_with_tools turns started
    nfrags,              \* stream chunks consumed so far
    srun,                \* the running turn: its number, the size of the dict
                         \* when its loop over the pending calls began, and
                         \* whether the last iteration of the loop awaited
    sparked,             \* the stream_with_tools turn suspended at an await
                         \* while another one runs, with its locals
    \* ---- StatefulConversationHandler
    sessions,            \* self.sessions: session id -> ConversationState
    ppc,                 \* position of process_message
    pm,                  \* locals of the running process_message call
    pending,             \* tool_calls handed to _execute_tools
    tidx,                \* position of the loop of _execute_tools
    results,             \* results list of _execute_tools
    ret,                 \* what the last process_message call returned
    obs,                 \* what the current (last) turn did: model calls,
                         \* tool rounds, callables invoked, how it ended
    request,             \* kwargs of the last aresponses call
    nresp,               \* responses the provider has issued
    ncalls,              \* aresponses calls made so far
    pturns,              \* process_message calls started
    ntools,              \* tool calls executed so far
    parked,              \* the process_message call suspended at an await
                         \* while another one runs, with its locals
    \* ---- multi_step_tool_calling
    messages,            \* the messages list
    mpc,                 \* position of multi_step_tool_calling
    iteration,           \* its loop counter
    mpending,            \* message.tool_calls of the current iteration
    midx,                \* position of the loop over message.tool_calls
    mobs,                \* what the run did: model calls, tool rounds,
                         \* execute_tool calls, callables invoked, how it ended
    mextra,              \* tool calls beyond one per response, so far
    \* ---- the registry of the handler
    registry,            \* the handler's class, self.tools and
                         \* self.tool_schemas
    lastreg              \* the last register_tool call: its number, name,
                         \* callable and schema, and whether it raised

streamVars == <<current_tool_calls, spc, sidx, events, progress, fed, touched,
                sinvoked, sturns, nfrags, srun, sparked>>
convVars == <<sessions, ppc, pm, pending, tidx, results, ret, obs, request,
              nresp, ncalls, pturns, ntools, parked>>
multiVars == <<messages, mpc, iteration, mpending, midx, mobs, mextra>>
regVars == <<registry, lastreg>>
vars == <<mode, streamVars, convVars, multiVars, regVars>>

---------------------------------------------------------------------------
\* Bounds of the model.
MaxFrags == 3      \* stream chunks over a behaviour
MaxTurns == 2      \* stream_with_tools turns on the one handler
MaxModelCalls == 2 \* aresponses calls over a behaviour
MaxToolCalls == 2  \* tool calls the model requests of process_message
MaxExtraCalls == 1 \* tool calls beyond one per response, multi-step loop
MaxParallelCalls == 1 \* tool calls per response, concurrent process_message
MaxRegistrations == 2 \* register_tool calls on one handler

---------------------------------------------------------------------------
\* Values.
NoId   == ""       \* None / "" call identifier
NoName == ""       \* None / "" tool name
NoText == <<>>     \* None / "" argument text
CallIds == {"c1", "c2"}

\* The names registered in the handlers that run turns.  "ok" returns a
\* JSON-serializable value, "boom" raises, "clock" returns a value json.dumps
\* rejects.  "ghost" is a name the model may ask for that is not registered.
tools == {"ok", "boom", "clock"}

\* json.loads on the token alphabet: "{}" is the only object, a run of "1" is
\* a number, everything else (the empty text included) is a JSONDecodeError.
IsNumberText(s) == Len(s) > 0 /\ \A i \in 1..Len(s) : s[i] = "1"

JsonLoads(s) ==
    IF s = <<"{", "}">> THEN [ok |-> TRUE, value |-> "dict"]
    ELSE IF IsNumberText(s) THEN [ok |-> TRUE, value |-> "int"]
    ELSE [ok |-> FALSE, value |-> "JSONDecodeError"]

\* func(**args): a non-mapping after ** is a TypeError raised before the
\* callable runs; otherwise the callable runs and returns or raises.
CallTool(name, args) ==
    IF args # "dict"
    THEN [invoked |-> FALSE, raised |-> TRUE, value |-> "TypeError"]
    ELSE IF name = "boom"
    THEN [invoked |-> TRUE, raised |-> TRUE, value |-> "boom failed"]
    ELSE IF name = "clock"
    THEN [invoked |-> TRUE, raised |-> FALSE, value |-> "unserializable"]
    ELSE [invoked |-> TRUE, raised |-> FALSE, value |-> "value"]

\* A callable is a body with the way it was defined.  Calling an async def
\* function binds the arguments and returns a coroutine object without
\* running the body; awaiting the coroutine runs the body.
Bodies == {"ok", "boom", "clock"}
Funcs == [body : Bodies, kind : {"def", "async def"}]

iscoroutinefunction(func) == func.kind = "async def"

Invoke(func, args) ==
    IF func.kind = "async def" /\ args = "dict"
    THEN [invoked |-> FALSE, raised |-> FALSE, value |-> "coroutine"]
    ELSE CallTool(func.body, args)

Await(func, args) == CallTool(func.body, args)

\* RunCallable calling every callable without awaiting.
RunCallable_NeverAwait(func, args) == Invoke(func, args)

\* if asyncio.iscoroutinefunction(func): result = await func(**args)
\* else: result = func(**args)
RunCallable(func, args) ==
    IF iscoroutinefunction(func) THEN Await(func, args)
    ELSE Invoke(func, args)

\* The same body defined the other way.
Twin(func) ==
    [body |-> func.body,
     kind |-> IF func.kind = "def" THEN "async def" ELSE "def"]

---------------------------------------------------------------------------
\* The registries of ToolHandler, StreamingToolHandler and
\* StatefulConversationHandler.

Handlers == {"ToolHandler", "StreamingToolHandler",
             "StatefulConversationHandler"}

\* A schema is in the chat-completions layout, {"type": "function",
\* "function": {"name": ...}}, or in the flat layout of the responses API,
\* {"type": "function", "name": ...}.
Schema(format, name) == [format |-> format, name |-> name]
Schemas == [format : {"chat", "responses"}, name : {"ok", "boom"}]

\* Lines 52-58 of StatefulConversationHandler.register_tool.
ToResponsesFormat(schema) == Schema("responses", schema.name)

\* d[k] = v on a dict.
Put(d, k, v) == [x \in DOMAIN d \cup {k} |-> IF x = k THEN v ELSE d[x]]

\* The handler after __init__.
EmptyRegistry(handler) ==
    [handler |-> handler,
     tools |-> [x \in {} |-> [body |-> "ok", kind |-> "def"]],
     tool_schemas |-> <<>>]

\* ToolHandler.register_tool reads schema["function"]["name"]: a KeyError for
\* a schema in the flat layout, before anything is stored.
RegisterRaises(reg, schema) ==
    reg.handler = "ToolHandler" /\ schema.format # "chat"

\* register_tool putting the new schema in front of the list.
register_tool_Prepend(reg, name, func, schema) ==
    [reg EXCEPT !.tools = Put(@, name, func),
                !.tool_schemas = <<schema>> \o @]

\* register_tool of the three classes: the registry afterwards.  ToolHandler
\* takes the name from the schema; StatefulConversationHandler converts a
\* chat-completions schema and appends nothing for any other schema.
register_tool(reg, name, func, schema) ==
    IF reg.handler = "StatefulConversationHandler"
    THEN [reg EXCEPT !.tools = Put(@, name, func),
                     !.tool_schemas =
                         IF schema.format = "chat"
                         THEN Append(@, ToResponsesFormat(schema))
                         ELSE @]
    ELSE [reg EXCEPT !.tools = Put(@, name, func),
                     !.tool_schemas = Append(@, schema)]

\* The handlers that run turns have "ok" registered as a coroutine function
\* and "boom" and "clock" as plain functions, in this order.
DefaultRegistry(handler) ==
    LET r1 == register_tool(EmptyRegistry(handler), "ok",
                            [body |-> "ok", kind |-> "async def"],
                            Schema("chat", "ok"))
        r2 == register_tool(r1, "boom", [body |-> "boom", kind |-> "def"],
                            Schema("chat", "boom"))
    IN  register_tool(r2, "clock", [body |-> "clock", kind |-> "def"],
                      Schema("chat", "clock"))

HandlerOf(m) ==
    IF m \in {"stream", "turns"} THEN "StreamingToolHandler"
    ELSE IF m = "multi" THEN "ToolHandler"
    ELSE "StatefulConversationHandler"

NoRegistration ==
    [n |-> 0, name |-> NoName, func |-> [body |-> "ok", kind |-> "def"],
     schema |-> Schema("chat", NoName), raised |-> FALSE]

\* One register_tool call; the caller registers a schema under the name the
\* schema declares.
RegisterTool ==
    /\ mode = "registry" /\ lastreg.n < MaxRegistrations
    /\ \E func \in {f \in Funcs : f.body \in {"ok", "boom"}},
          schema \in Schemas :
        /\ registry' = IF RegisterRaises(registry, schema) THEN registry
                       ELSE register_tool(registry, schema.name, func, schema)
        /\ lastreg' = [n |-> lastreg.n + 1, name |-> schema.name,
                       func |-> func, schema |-> schema,
                       raised |-> RegisterRaises(registry, schema)]
    /\ UNCHANGED <<mode, streamVars, convVars, multiVars>>

---------------------------------------------------------------------------
\* StreamingToolHandler

Event(t, i, d) == [type |-> t, id |-> i, data |-> d]

\* Position of key k in an insertion-ordered dict (0 when absent).
IndexOf(d, k) ==
    IF \E i \in 1..Len(d) : d[i].id = k
    THEN CHOOSE i \in 1..Len(d) : d[i].id = k
    ELSE 0

\* ProcessToolCallDelta with a new entry for every delta that has an id.
ProcessToolCallDelta_AlwaysNew(d, delta) ==
    IF delta.id = NoId THEN d
    ELSE Append(d, [id |-> delta.id, name |-> delta.name,
                    arguments |-> delta.arguments])

\* ProcessToolCallDelta where a name token starts the argument text afresh.
ProcessToolCallDelta_NameResets(d, delta) ==
    IF delta.id = NoId THEN d
    ELSE
        LET d1 == IF IndexOf(d, delta.id) = 0
                  THEN Append(d, [id |-> delta.id, name |-> NoName,
                                  arguments |-> NoText])
                  ELSE d
            k  == IndexOf(d1, delta.id)
            d2 == IF delta.name # NoName
                  THEN [d1 EXCEPT ![k].name = delta.name,
                                  ![k].arguments = NoText]
                  ELSE d1
        IN  IF delta.arguments # NoText
            THEN [d2 EXCEPT ![k].arguments = d2[k].arguments \o delta.arguments]
            ELSE d2

\* _process_tool_call_delta: the dict after one delta.
ProcessToolCallDelta(d, delta) ==
    IF delta.id = NoId THEN d
    ELSE
        LET d1 == IF IndexOf(d, delta.id) = 0
                  THEN Append(d, [id |-> delta.id, name |-> NoName,
                                  arguments |-> NoText])
                  ELSE d
            k  == IndexOf(d1, delta.id)
            d2 == IF delta.name # NoName
                  THEN [d1 EXCEPT ![k].name = delta.name]
                  ELSE d1
        IN  IF delta.arguments # NoText
            THEN [d2 EXCEPT ![k].arguments = d2[k].arguments \o delta.arguments]
            ELSE d2

\* Nothing yielded yet.
NoProgress ==
    [text    |-> FALSE,
     started |-> {},
     args    |-> [i \in {NoId} \cup CallIds |-> NoText]]

\* The progress events _process_chunk yields for one delta: TOOL_CALL_START
\* when the delta names the tool, TOOL_CALL_ARGS when it carries a chunk, both
\* with the delta's own id (None included).
DeltaEvents(p, delta) ==
    [text    |-> p.text,
     started |-> IF delta.name # NoName THEN p.started \cup {delta.id}
                 ELSE p.started,
     args    |-> IF delta.arguments # NoText
                 THEN [p.args EXCEPT ![delta.id] = @ \o delta.arguments]
                 ELSE p.args]

FragNames == {NoName, "ok", "boom", "ghost"}
FragChunks == {NoText, <<"{">>, <<"}">>}
Deltas == [id : {NoId} \cup CallIds, name : FragNames, arguments : FragChunks]

\* StreamingToolHandler is driven by one stream_with_tools turn at a time
\* (mode "stream"), or by two turns that the caller runs concurrently as
\* asyncio tasks on the one handler (mode "turns").
Streaming == mode \in {"stream", "turns"}

\* The provider gives every tool call its own identifier: of two concurrent
\* turns, the stream of the first names the call "c1" and the stream of the
\* second names it "c2", and the model asks for the tool "ok".
TurnDeltas(turn) ==
    {delta \in Deltas : /\ delta.id = (IF turn = 1 THEN "c1" ELSE "c2")
                        /\ delta.name \in {NoName, "ok"}}

\* A turn may start: any number of turns one after another, or the second of
\* two concurrent turns while the first one is suspended.
MayBegin ==
    IF mode = "turns" THEN sturns = 0 \/ (sturns = 1 /\ sparked.active)
    ELSE sturns < MaxTurns

\* A turn outside the loop of _execute_pending_tools.
NotIterating(turn) == [turn |-> turn, size |-> 0, awaited |-> FALSE]

\* stream_with_tools is called and acompletion returns a stream.
StreamBegin ==
    /\ Streaming /\ spc = "idle" /\ MayBegin
    /\ spc' = "streaming"
    /\ sturns' = sturns + 1
    /\ events' = <<>>
    /\ progress' = NoProgress
    /\ fed' = [i \in CallIds |-> NoText]
    /\ touched' = {}
    /\ sinvoked' = <<>>
    /\ srun' = NotIterating(sturns + 1)
    /\ UNCHANGED <<mode, regVars, convVars, multiVars, sparked, current_tool_calls, sidx, nfrags>>

\* stream_with_tools is called and acompletion raises.
StreamBeginRaises ==
    /\ Streaming /\ spc = "idle" /\ MayBegin
    /\ sturns' = sturns + 1
    /\ events' = <<Event("ERROR", NoId, "acompletion failed")>>
    /\ progress' = NoProgress
    /\ fed' = [i \in CallIds |-> NoText]
    /\ touched' = {}
    /\ sinvoked' = <<>>
    /\ srun' = NotIterating(sturns + 1)
    /\ UNCHANGED <<mode, regVars, convVars, multiVars, sparked, current_tool_calls, spc, sidx, nfrags>>

\* One chunk with text content.
ProcessTextChunk ==
    /\ Streaming /\ spc = "streaming" /\ nfrags < MaxFrags
    /\ nfrags' = nfrags + 1
    /\ progress' = [progress EXCEPT !.text = TRUE]
    /\ UNCHANGED <<mode, regVars, convVars, multiVars, sparked, current_tool_calls, spc, sidx, events, fed, touched,
                   sinvoked, sturns, srun>>

\* ProcessDeltaChunk finalizing a call as soon as a fragment completes its
\* argument text.
ProcessDeltaChunk_Eager ==
    /\ Streaming /\ spc = "streaming" /\ nfrags < MaxFrags
    /\ \E delta \in IF mode = "turns" THEN TurnDeltas(srun.turn) ELSE Deltas :
        LET d == ProcessToolCallDelta(current_tool_calls, delta)
            k == IndexOf(d, delta.id)
        IN  /\ current_tool_calls' = d
            /\ progress' = DeltaEvents(progress, delta)
            /\ fed' = IF delta.id = NoId THEN fed
                      ELSE [fed EXCEPT ![delta.id] = @ \o delta.arguments]
            /\ touched' = IF delta.id = NoId THEN touched
                          ELSE touched \cup {delta.id}
            /\ events' = IF k # 0 /\ delta.arguments # NoText
                                  /\ JsonLoads(d[k].arguments).ok
                          THEN Append(events,
                                      Event("TOOL_CALL_END", delta.id,
                                            [name |-> d[k].name,
                                             arguments |-> d[k].arguments]))
                          ELSE events
    /\ nfrags' = nfrags + 1
    /\ UNCHANGED <<mode, regVars, convVars, multiVars, sparked, spc, sidx, sinvoked, sturns, srun>>

\* One chunk with one tool-call delta.
ProcessDeltaChunk ==
    /\ Streaming /\ spc = "streaming" /\ nfrags < MaxFrags
    /\ \E delta \in IF mode = "turns" THEN TurnDeltas(srun.turn) ELSE Deltas :
        /\ current_tool_calls' = ProcessToolCallDelta(current_tool_calls, delta)
        /\ progress' = DeltaEvents(progress, delta)
        /\ fed' = IF delta.id = NoId THEN fed
                  ELSE [fed EXCEPT ![delta.id] = @ \o delta.arguments]
        /\ touched' = IF delta.id = NoId THEN touched
                      ELSE touched \cup {delta.id}
    /\ nfrags' = nfrags + 1
    /\ UNCHANGED <<mode, regVars, convVars, multiVars, sparked, spc, sidx, events, sinvoked, sturns, srun>>

\* StreamRaises going on to the pending tool calls after it yielded ERROR.
StreamRaises_RunsPending ==
    /\ Streaming /\ spc = "streaming"
    /\ events' = Append(events, Event("ERROR", NoId, "stream failed"))
    /\ IF current_tool_calls # <<>>
       THEN /\ spc' = "executing" /\ sidx' = 1
            /\ srun' = [srun EXCEPT !.size = Len(current_tool_calls)]
       ELSE spc' = "idle" /\ UNCHANGED <<sidx, srun>>
    /\ UNCHANGED <<mode, regVars, convVars, multiVars, sparked, current_tool_calls, progress, fed, touched,
                   sinvoked, sturns, nfrags>>

\* The stream raises while it is iterated: the except clause yields ERROR.
StreamRaises ==
    /\ Streaming /\ spc = "streaming"
    /\ spc' = "idle"
    /\ events' = Append(events, Event("ERROR", NoId, "stream failed"))
    /\ UNCHANGED <<mode, regVars, convVars, multiVars, sparked, current_tool_calls, sidx, progress, fed, touched,
                   sinvoked, sturns, nfrags, srun>>

\* End of stream: the loop over the pending calls begins, or END is yielded
\* at once.
StreamEnds ==
    /\ Streaming /\ spc = "streaming"
    /\ IF current_tool_calls # <<>>
       THEN /\ spc' = "executing"
            /\ sidx' = 1
            /\ srun' = [srun EXCEPT !.size = Len(current_tool_calls)]
            /\ UNCHANGED events
       ELSE /\ spc' = "idle"
            /\ events' = Append(events, Event("END", NoId, "none"))
            /\ UNCHANGED <<sidx, srun>>
    /\ UNCHANGED <<mode, regVars, convVars, multiVars, sparked, current_tool_calls, progress, fed, touched, sinvoked,
                   sturns, nfrags>>

\* What one iteration of the loop of _execute_pending_tools yields and invokes.
ExecutePending(info) ==
    LET end == Event("TOOL_CALL_END", info.id,
                     [name |-> info.name, arguments |-> info.arguments])
    IN  IF info.name \in DOMAIN registry.tools
        THEN LET p == JsonLoads(info.arguments)
                 c == RunCallable(registry.tools[info.name], p.value)
             IN  IF ~p.ok
                 THEN [events |-> <<end, Event("TOOL_RESULT", info.id,
                                    [success |-> FALSE, value |-> p.value])>>,
                       invoked |-> <<>>]
                 ELSE [events |-> <<end, Event("TOOL_RESULT", info.id,
                                    [success |-> ~c.raised, value |-> c.value])>>,
                       invoked |-> IF c.invoked THEN <<<<info.id, info.name>>>>
                                   ELSE <<>>]
        ELSE [events |-> <<end>>, invoked |-> <<>>]

\* The iteration for this entry reaches await func(**args) of line 174.
Awaits(info) ==
    /\ ExecutePending(info).invoked # <<>>
    /\ iscoroutinefunction(registry.tools[info.name])

\* One iteration of the loop of _execute_pending_tools; the dict iterator
\* goes on while the dict has the size it had when the loop began.
ExecutePendingTool ==
    /\ Streaming /\ spc = "executing" /\ sidx <= Len(current_tool_calls)
    /\ Len(current_tool_calls) = srun.size
    /\ LET r == ExecutePending(current_tool_calls[sidx])
       IN  /\ events' = events \o r.events
           /\ sinvoked' = sinvoked \o r.invoked
    /\ srun' = [srun EXCEPT !.awaited = Awaits(current_tool_calls[sidx])]
    /\ sidx' = sidx + 1
    /\ UNCHANGED <<mode, regVars, convVars, multiVars, sparked, current_tool_calls, spc, progress, fed, touched, sturns,
                   nfrags>>

\* The loop is over: the dict is cleared and END is yielded.
PendingDone ==
    /\ Streaming /\ spc = "executing" /\ sidx > Len(current_tool_calls)
    /\ Len(current_tool_calls) = srun.size
    /\ current_tool_calls' = <<>>
    /\ spc' = "idle"
    /\ events' = Append(events, Event("END", NoId, "none"))
    /\ srun' = NotIterating(srun.turn)
    /\ UNCHANGED <<mode, regVars, convVars, multiVars, sparked, sidx, progress, fed, touched, sinvoked, sturns, nfrags>>

\* The dict iterator of line 154 finds that the dict changed size since the
\* loop began: RuntimeError, which the except clause of stream_with_tools
\* turns into ERROR; line 199 is not reached.
PendingRaises ==
    /\ Streaming /\ spc = "executing"
    /\ Len(current_tool_calls) # srun.size
    /\ spc' = "idle"
    /\ events' = Append(events,
                        Event("ERROR", NoId,
                              "dictionary changed size during iteration"))
    /\ srun' = NotIterating(srun.turn)
    /\ UNCHANGED <<mode, regVars, convVars, multiVars, sparked, current_tool_calls, sidx, progress, fed, touched,
                   sinvoked, sturns, nfrags>>

\* The running turn is at an await that gives control to the event loop:
\* the async for of line 77 waiting for the next chunk, or await func(**args)
\* of line 174 in the iteration of the loop that has just been modelled.
AtStreamAwait ==
    \/ spc = "streaming"
    \/ spc = "executing" /\ srun.awaited

\* No stream_with_tools turn is suspended.
NoTurn == [active |-> FALSE]

\* The running turn with its locals.
RunningTurn ==
    [active |-> TRUE, spc |-> spc, sidx |-> sidx, events |-> events,
     progress |-> progress, fed |-> fed, touched |-> touched,
     sinvoked |-> sinvoked, srun |-> srun]

\* The first turn is suspended at an await and the event loop is free to
\* start the second one.
SuspendTurn ==
    /\ mode = "turns" /\ AtStreamAwait /\ ~sparked.active /\ sturns = 1
    /\ sparked' = RunningTurn
    /\ spc' = "idle"
    /\ sidx' = 1
    /\ events' = <<>>
    /\ progress' = NoProgress
    /\ fed' = [i \in CallIds |-> NoText]
    /\ touched' = {}
    /\ sinvoked' = <<>>
    /\ srun' = NotIterating(0)
    /\ UNCHANGED <<mode, regVars, convVars, multiVars, current_tool_calls, sturns, nfrags>>

\* The running turn is suspended at an await and the suspended one goes on.
SwitchTurn ==
    /\ mode = "turns" /\ AtStreamAwait /\ sparked.active
    /\ sparked' = RunningTurn
    /\ spc' = sparked.spc
    /\ sidx' = sparked.sidx
    /\ events' = sparked.events
    /\ progress' = sparked.progress
    /\ fed' = sparked.fed
    /\ touched' = sparked.touched
    /\ sinvoked' = sparked.sinvoked
    /\ srun' = sparked.srun
    /\ UNCHANGED <<mode, regVars, convVars, multiVars, current_tool_calls, sturns, nfrags>>

\* The running turn is over and the suspended one goes on.
ResumeTurn ==
    /\ mode = "turns" /\ spc = "idle" /\ sparked.active /\ sturns = 2
    /\ sparked' = NoTurn
    /\ spc' = sparked.spc
    /\ sidx' = sparked.sidx
    /\ events' = sparked.events
    /\ progress' = sparked.progress
    /\ fed' = sparked.fed
    /\ touched' = sparked.touched
    /\ sinvoked' = sparked.sinvoked
    /\ srun' = sparked.srun
    /\ UNCHANGED <<mode, regVars, convVars, multiVars, current_tool_calls, sturns, nfrags>>


---------------------------------------------------------------------------
\* StatefulConversationHandler

SessionIds == {"s1", "s2"}

\* StatefulConversationHandler is driven by one process_message call at a
\* time (mode "stateful"), or by calls that the caller runs concurrently as
\* asyncio tasks: on different sessions, where it may also cancel a task
\* (mode "parallel"), or on the same session, where it may also clear
\* sessions between calls (mode "shared").
Conversing == mode \in {"stateful", "parallel", "shared"}

Concurrent == mode \in {"parallel", "shared"}

\* Tool calls as _execute_tools reads them (name, arguments, call_id).
\* Every name with well-formed arguments, and a registered and an unregistered
\* name with empty and with malformed argument text.
ToolNames == {NoName, "ok", "boom", "clock", "ghost"}
ToolCalls ==
    [name : ToolNames, arguments : {<<"{", "}">>}]
    \cup [name : {"ok", "ghost"}, arguments : {NoText, <<"{">>}]

\* The k-th tool call of a response carries the call id call_k.
WithCallIds(tcs) ==
    [k \in 1..Len(tcs) |->
        [name |-> tcs[k].name, arguments |-> tcs[k].arguments,
         call_id |-> "call_" \o ToString(k)]]

Batches(n) == UNION {[1..k -> ToolCalls] : k \in 0..n}

\* Responses to calls run as tasks request at most MaxParallelCalls tool calls,
\* with well-formed arguments, of a tool that succeeds or of an unknown tool.
ParallelBatches(n) ==
    UNION {[1..k -> {tc \in ToolCalls : /\ tc.name \in {"ok", "ghost"}
                                        /\ tc.arguments = <<"{", "}">>}] :
           k \in 0..(IF n < MaxParallelCalls THEN n ELSE MaxParallelCalls)}

\* The tool calls of a chat completion always name a function.
NamedBatches(n) ==
    UNION {[1..k -> {tc \in ToolCalls : tc.name # NoName}] : k \in 0..n}

\* Responses of aresponses: an output list with tool calls and text, or an
\* object without an output list.
Texts == {"", "hi"}

\* get_or_create_session
NewConversationState ==
    [last_response_id |-> NoId, messages |-> <<>>, tool_calls_history |-> <<>>]

\* GetOrCreateSession replacing the state of a session in use.
GetOrCreateSession_Fresh(ss, sid) ==
    [x \in DOMAIN ss \cup {sid} |->
        IF x = sid THEN NewConversationState ELSE ss[x]]

GetOrCreateSession(ss, sid) ==
    IF sid \in DOMAIN ss THEN ss
    ELSE [x \in DOMAIN ss \cup {sid} |->
            IF x = sid THEN NewConversationState ELSE ss[x]]

\* Session ids a caller may pass: one in use, or the next unused one.
SessionChoices(ss) ==
    DOMAIN ss \cup
    (IF "s1" \notin DOMAIN ss THEN {"s1"}
     ELSE IF "s2" \notin DOMAIN ss THEN {"s2"} ELSE {})

\* json.dumps of a tool result: a TypeError for a value it cannot encode.
JsonDumps(result) ==
    IF ~result.is_error /\ result.value \in {"unserializable", "coroutine"}
    THEN [ok |-> FALSE, text |-> "TypeError"]
    ELSE [ok |-> TRUE,
          text |-> (IF result.is_error THEN "{\"error\": \"" ELSE "\"")
                   \o result.value
                   \o (IF result.is_error THEN "\"}" ELSE "\"")]

Absent == "absent"   \* a key the dict does not have

\* call_id or f"error_{len(results)}"
OrErrorId(call_id, rs) ==
    IF call_id # NoId THEN call_id ELSE "error_" \o ToString(Len(rs))

\* UnknownToolResult with the result never appended.
UnknownToolResult_Dropped(tc, rs) == rs

\* Lines 206-211: the results list after an unknown (or empty) tool name.
UnknownToolResult(tc, rs) ==
    Append(rs, [call_id |-> OrErrorId(tc.call_id, rs),
                tool    |-> Absent,
                success |-> Absent,
                result  |-> [is_error |-> TRUE,
                             value |-> "Unknown tool: " \o tc.name]])

\* Lines 223-229: the results list after the callable returned.
SuccessResult(tc, rs, args, value) ==
    Append(rs, [call_id |-> IF tc.call_id # NoId THEN tc.call_id
                            ELSE "call_" \o tc.name \o "_" \o ToString(Len(rs)),
                tool    |-> tc.name,
                success |-> "true",
                result  |-> [is_error |-> FALSE, value |-> value]])

\* FailureResult assigning the results list instead of appending to it.
FailureResult_Reset(tc, rs, e) ==
    <<[call_id |-> OrErrorId(tc.call_id, rs),
       tool    |-> tc.name,
       success |-> "false",
       result  |-> [is_error |-> TRUE, value |-> e]]>>

\* FailureResult without the exception's message.
FailureResult_NoMessage(tc, rs, e) ==
    Append(rs, [call_id |-> OrErrorId(tc.call_id, rs),
                tool    |-> tc.name,
                success |-> "false",
                result  |-> [is_error |-> TRUE, value |-> "error"]])

\* Lines 239-245: the results list after the except clause, e being str(e).
FailureResult(tc, rs, e) ==
    Append(rs, [call_id |-> OrErrorId(tc.call_id, rs),
                tool    |-> tc.name,
                success |-> "false",
                result  |-> [is_error |-> TRUE, value |-> e]])

\* One iteration of the loop of _execute_tools on results list rs: the list
\* afterwards, what is appended to session.tool_calls_history, and the
\* callable that ran.
ExecuteOne(tc, rs) ==
    IF tc.name = NoName \/ tc.name \notin DOMAIN registry.tools
    THEN [results |-> UnknownToolResult(tc, rs),
          history |-> <<>>,
          invoked |-> <<>>]
    ELSE
        LET p == IF tc.arguments # NoText THEN JsonLoads(tc.arguments)
                 ELSE [ok |-> TRUE, value |-> "dict"]
            c == RunCallable(registry.tools[tc.name], p.value)
        IN  IF ~p.ok
            THEN [results |-> FailureResult(tc, rs, p.value),
                  history |-> <<>>,
                  invoked |-> <<>>]
            ELSE IF c.raised
            THEN [results |-> FailureResult(tc, rs, c.value),
                  history |-> <<>>,
                  invoked |-> IF c.invoked THEN <<<<tc.call_id, tc.name>>>>
                              ELSE <<>>]
            ELSE [results |-> SuccessResult(tc, rs, p.value, c.value),
                  history |-> <<[tool |-> tc.name, args |-> p.value,
                                 result |-> c.value]>>,
                  invoked |-> <<<<tc.call_id, tc.name>>>>]

\* Finish with one messages list shared by every ConversationState.
Finish_SharedMessages(ss, p, o) ==
    /\ sessions' = [sid \in DOMAIN ss |->
                       [ss[sid] EXCEPT !.messages =
                           Append(@, [role |-> "assistant",
                                      content |-> p.full_response,
                                      tool_calls |-> p.tool_calls_made])]]
    /\ ret' = [response |-> p.full_response,
               session_id |-> p.session_id,
               iterations |-> p.iteration,
               tool_calls |-> Len(p.tool_calls_made),
               response_id |-> p.current_response_id]
    /\ pm' = p
    /\ obs' = o
    /\ ppc' = "idle"

\* Finish saving the assistant message before full_response was assigned.
Finish_StaleResponse(ss, p, o) ==
    /\ sessions' = [ss EXCEPT ![p.session_id].messages =
                        Append(@, [role |-> "assistant",
                                   content |-> pm.full_response,
                                   tool_calls |-> p.tool_calls_made])]
    /\ ret' = [response |-> p.full_response,
               session_id |-> p.session_id,
               iterations |-> p.iteration,
               tool_calls |-> Len(p.tool_calls_made),
               response_id |-> p.current_response_id]
    /\ pm' = p
    /\ obs' = o
    /\ ppc' = "idle"

\* Finish saving an assistant message only when the turn has a response text.
Finish_SkipsEmpty(ss, p, o) ==
    /\ sessions' = IF p.full_response = "" THEN ss
                   ELSE [ss EXCEPT ![p.session_id].messages =
                            Append(@, [role |-> "assistant",
                                       content |-> p.full_response,
                                       tool_calls |-> p.tool_calls_made])]
    /\ ret' = [response |-> p.full_response,
               session_id |-> p.session_id,
               iterations |-> p.iteration,
               tool_calls |-> Len(p.tool_calls_made),
               response_id |-> p.current_response_id]
    /\ pm' = p
    /\ obs' = o
    /\ ppc' = "idle"

\* Lines 170-184: the assistant message is saved and the result returned.
Finish(ss, p, o) ==
    /\ sessions' = [ss EXCEPT ![p.session_id].messages =
                        Append(@, [role |-> "assistant",
                                   content |-> p.full_response,
                                   tool_calls |-> p.tool_calls_made])]
    /\ ret' = [response |-> p.full_response,
               session_id |-> p.session_id,
               iterations |-> p.iteration,
               tool_calls |-> Len(p.tool_calls_made),
               response_id |-> p.current_response_id]
    /\ pm' = p
    /\ obs' = o
    /\ ppc' = "idle"

\* ErrorResponse leaving full_response as it was initialised.
ErrorResponse_Blank(e) == ""

\* Line 167: the text the except clause makes the response of the turn.
ErrorResponse(e) == "Error processing message: " \o e

\* invoked holds <<round, call_id, name>>; first is the first response; hist0
\* is the length of session.tool_calls_history, and rid0 the
\* session.last_response_id, when the last round began.
NoObs ==
    [model_calls |-> 0, tool_responses |-> 0, tool_rounds |-> 0,
     invoked |-> <<>>, outcome |-> "none", cause |-> "none",
     first |-> [present |-> FALSE, tool_calls |-> 0, text |-> ""],
     hist0 |-> 0, rid0 |-> NoId]

\* Locals of a process_message call that has not started.
NoLocals ==
    [session_id |-> NoId, max_iterations |-> 0,
     current_input |-> [kind |-> "text", items |-> <<>>],
     current_response_id |-> NoId, iteration |-> 0,
     full_response |-> "", tool_calls_made |-> <<>>]

\* No process_message call is suspended.
NoCall ==
    [active |-> FALSE, ppc |-> "idle", pm |-> NoLocals, pending |-> <<>>,
     tidx |-> 1, results |-> <<>>, obs |-> NoObs,
     session |-> NewConversationState]

\* Model calls the suspended call may still make.
Reserved ==
    IF parked.active THEN parked.pm.max_iterations - parked.pm.iteration
    ELSE 0

\* process_message up to the while loop.  max_iterations is any bound the
\* remaining model calls can exhaust; a call that starts while another one
\* is suspended is on a different session in mode "parallel"; in mode
\* "shared" every call is on session "s1".
ProcessMessageBegin ==
    /\ Conversing /\ ppc = "idle"
    /\ \E sid \in IF mode = "shared" THEN {"s1"}
                   ELSE IF ~parked.active THEN SessionChoices(sessions)
                   ELSE SessionChoices(sessions) \ {parked.pm.session_id},
          B \in 1..(MaxModelCalls - ncalls - Reserved) :
        LET ss == GetOrCreateSession(sessions, sid)
            user_message == "message " \o ToString(pturns + 1)
        IN  /\ sessions' = [ss EXCEPT ![sid].messages =
                                Append(@, [role |-> "user",
                                           content |-> user_message,
                                           tool_calls |-> <<>>])]
            /\ pm' = [session_id |-> sid,
                      max_iterations |-> B,
                      current_input |-> [kind |-> "text",
                                         items |-> <<user_message>>],
                      current_response_id |-> ss[sid].last_response_id,
                      iteration |-> 0,
                      full_response |-> "",
                      tool_calls_made |-> <<>>]
    /\ ppc' = "loop"
    /\ obs' = NoObs
    /\ pturns' = pturns + 1
    /\ UNCHANGED <<mode, regVars, streamVars, multiVars, parked, pending, tidx, results, ret, request,
                   nresp, ncalls, ntools>>

\* "tools": self.tool_schemas if self.tool_schemas else None
ToolsArg(schemas) == [none |-> schemas = <<>>, list |-> schemas]

\* Kwargs never carrying a previous response.
Kwargs_NoPrevious == [input |-> pm.current_input,
                      tools |-> ToolsArg(registry.tool_schemas),
                      previous_response_id |-> NoId]

\* kwargs of the aresponses call of the current iteration.
Kwargs == [input |-> pm.current_input,
           tools |-> ToolsArg(registry.tool_schemas),
           previous_response_id |-> pm.current_response_id]

\* One iteration of the while loop in which aresponses returns: the response
\* is parsed and either tools are executed, or the turn ends.
AresponsesReturns ==
    /\ Conversing /\ ppc = "loop"
    /\ pm.iteration < pm.max_iterations
    /\ \E has_output \in BOOLEAN, text_content \in Texts,
          tcs \in IF Concurrent
                  THEN ParallelBatches(MaxToolCalls - ntools)
                  ELSE Batches(MaxToolCalls - ntools) :
        LET rid == "resp_" \o ToString(nresp + 1)
            tool_calls == IF has_output THEN WithCallIds(tcs) ELSE <<>>
            p1 == [pm EXCEPT !.iteration = @ + 1,
                             !.current_response_id = rid]
            ss == [sessions EXCEPT ![pm.session_id].last_response_id = rid]
            o1 == [obs EXCEPT
                     !.model_calls = @ + 1,
                     !.tool_responses = IF tool_calls # <<>> THEN @ + 1 ELSE @,
                     !.first = IF obs.model_calls = 0
                               THEN [present |-> TRUE,
                                     tool_calls |-> Len(tool_calls),
                                     text |-> text_content]
                               ELSE @,
                     !.hist0 = IF tool_calls # <<>>
                               THEN Len(sessions[pm.session_id]
                                            .tool_calls_history)
                               ELSE @,
                     !.rid0 = IF tool_calls # <<>>
                              THEN sessions[pm.session_id].last_response_id
                              ELSE @]
        IN  /\ (~has_output => text_content = "" /\ tcs = <<>>)
            /\ IF tool_calls # <<>>
               THEN /\ ppc' = "tools"
                    /\ pending' = tool_calls
                    /\ tidx' = 1
                    /\ results' = <<>>
                    /\ pm' = p1
                    /\ sessions' = ss
                    /\ obs' = o1
                    /\ UNCHANGED ret
               ELSE IF has_output /\ text_content # ""
               THEN /\ Finish(ss, [p1 EXCEPT !.full_response = text_content],
                              [o1 EXCEPT !.outcome = "TERMINAL_TEXT"])
                    /\ UNCHANGED <<pending, tidx, results>>
               ELSE /\ Finish(ss, p1,
                              [o1 EXCEPT !.outcome = "NO_FURTHER_ACTIONS"])
                    /\ UNCHANGED <<pending, tidx, results>>
    /\ request' = Kwargs
    /\ nresp' = nresp + 1
    /\ ncalls' = ncalls + 1
    /\ UNCHANGED <<mode, regVars, streamVars, multiVars, parked, pturns, ntools>>

\* AresponsesRaises with the except clause going round the loop again.
AresponsesRaises_Retry ==
    /\ Conversing /\ ppc = "loop"
    /\ pm.iteration < pm.max_iterations
    /\ pm' = [pm EXCEPT !.iteration = @ + 1]
    /\ obs' = [obs EXCEPT !.model_calls = @ + 1,
                          !.outcome = "TERMINAL_ERROR",
                          !.cause = "aresponses"]
    /\ request' = Kwargs
    /\ ncalls' = ncalls + 1
    /\ UNCHANGED <<mode, regVars, streamVars, multiVars, parked, sessions, ppc, ret, pending,
                   tidx, results, nresp, pturns, ntools>>

\* AresponsesRaises with the except clause forgetting the continuation.
AresponsesRaises_ResetsId ==
    /\ Conversing /\ ppc = "loop"
    /\ pm.iteration < pm.max_iterations
    /\ Finish([sessions EXCEPT ![pm.session_id].last_response_id = NoId],
              [pm EXCEPT !.iteration = @ + 1,
                         !.full_response =
                             ErrorResponse("model call failed")],
              [obs EXCEPT !.model_calls = @ + 1,
                          !.outcome = "TERMINAL_ERROR",
                          !.cause = "aresponses"])
    /\ request' = Kwargs
    /\ ncalls' = ncalls + 1
    /\ UNCHANGED <<mode, regVars, streamVars, multiVars, parked, pending, tidx, results, nresp, pturns,
                   ntools>>

\* One iteration of the while loop in which aresponses raises.
AresponsesRaises ==
    /\ Conversing /\ ppc = "loop"
    /\ pm.iteration < pm.max_iterations
    /\ Finish(sessions,
              [pm EXCEPT !.iteration = @ + 1,
                         !.full_response =
                             ErrorResponse("model call failed")],
              [obs EXCEPT !.model_calls = @ + 1,
                          !.outcome = "TERMINAL_ERROR",
                          !.cause = "aresponses"])
    /\ request' = Kwargs
    /\ ncalls' = ncalls + 1
    /\ UNCHANGED <<mode, regVars, streamVars, multiVars, parked, pending, tidx, results, nresp, pturns,
                   ntools>>

\* One iteration of the loop of _execute_tools.
ExecuteTool ==
    /\ Conversing /\ ppc = "tools" /\ tidx <= Len(pending)
    /\ LET r == ExecuteOne(pending[tidx], results)
       IN  /\ results' = r.results
           /\ sessions' = [sessions EXCEPT
                  ![pm.session_id].tool_calls_history = @ \o r.history]
           /\ obs' = [obs EXCEPT !.invoked = @ \o
                        [j \in 1..Len(r.invoked) |->
                            <<obs.tool_rounds + 1>> \o r.invoked[j]]]
    /\ tidx' = tidx + 1
    /\ ntools' = ntools + 1
    /\ UNCHANGED <<mode, regVars, streamVars, multiVars, parked, ppc, pm, pending, ret, request, nresp,
                   ncalls, pturns>>

\* ToolOutputs leaving the failed results out of the next input.
ToolOutputs_OmitFailures(outs) ==
    LET kept == SelectSeq(outs, LAMBDA o : ~o.result.is_error)
    IN  [ok    |-> \A k \in 1..Len(outs) : JsonDumps(outs[k].result).ok,
         items |-> [k \in 1..Len(kept) |->
                      [type |-> "function_call_output",
                       call_id |-> kept[k].call_id,
                       output |-> JsonDumps(kept[k].result).text]]]

\* Lines 145-152: the next input, one function_call_output per result; the
\* json.dumps of a result may raise.
ToolOutputs(outs) ==
    [ok    |-> \A k \in 1..Len(outs) : JsonDumps(outs[k].result).ok,
     items |-> [k \in 1..Len(outs) |->
                  [type |-> "function_call_output",
                   call_id |-> outs[k].call_id,
                   output |-> JsonDumps(outs[k].result).text]]]

\* LoopOver leaving the loop after its first iteration.
LoopOver_AfterFirst(calls, idx) == idx > 1

\* The for loop over the tool calls of a response has no call left.
LoopOver(calls, idx) == idx > Len(calls)

\* _execute_tools returns: lines 141-153, or the except clause when
\* json.dumps raises.
ExecuteToolsReturns ==
    /\ Conversing /\ ppc = "tools" /\ LoopOver(pending, tidx)
    /\ LET made == pm.tool_calls_made \o results
           next == ToolOutputs(results)
           o1   == [obs EXCEPT !.tool_rounds = @ + 1]
       IN  IF next.ok
           THEN /\ pm' = [pm EXCEPT !.tool_calls_made = made,
                                    !.current_input =
                                        [kind |-> "tool_outputs",
                                         items |-> next.items]]
                /\ ppc' = "loop"
                /\ obs' = o1
                /\ UNCHANGED <<sessions, ret>>
           ELSE Finish(sessions,
                       [pm EXCEPT !.tool_calls_made = made,
                                  !.full_response = ErrorResponse("TypeError")],
                       [o1 EXCEPT !.outcome = "TERMINAL_ERROR",
                                  !.cause = "json.dumps"])
    /\ UNCHANGED <<mode, regVars, streamVars, multiVars, parked, pending, tidx, results, request, nresp,
                   ncalls, pturns, ntools>>

\* The while condition fails: max_iterations iterations were run.
LoopExhausted ==
    /\ Conversing /\ ppc = "loop"
    /\ pm.iteration >= pm.max_iterations
    /\ Finish(sessions, pm, [obs EXCEPT !.outcome = "ITERATION_LIMIT_REACHED"])
    /\ UNCHANGED <<mode, regVars, streamVars, multiVars, parked, pending, tidx, results, request, nresp,
                   ncalls, pturns, ntools>>

\* The running call is at an await that gives control to the event loop:
\* await aresponses(...) of line 113, or await func(**args) of line 219.
AtAwait ==
    \/ ppc = "loop" /\ pm.iteration < pm.max_iterations
    \/ /\ ppc = "tools" /\ tidx <= Len(pending)
       /\ ExecuteOne(pending[tidx], results).invoked # <<>>
       /\ iscoroutinefunction(registry.tools[pending[tidx].name])

\* The running call with its locals, and its session as it leaves it.
Running ==
    [active |-> TRUE, ppc |-> ppc, pm |-> pm, pending |-> pending,
     tidx |-> tidx, results |-> results, obs |-> obs,
     session |-> sessions[pm.session_id]]

\* The running call is suspended at an await and the event loop is free to
\* start another process_message call the caller has scheduled as a task.
Suspend ==
    /\ Concurrent /\ AtAwait /\ ~parked.active
    /\ ncalls + (pm.max_iterations - pm.iteration) < MaxModelCalls
    /\ parked' = Running
    /\ ppc' = "idle"
    /\ pm' = NoLocals
    /\ pending' = <<>>
    /\ tidx' = 1
    /\ results' = <<>>
    /\ obs' = NoObs
    /\ UNCHANGED <<mode, regVars, streamVars, multiVars, sessions, ret, request, nresp,
                   ncalls, pturns, ntools>>

\* The running call is suspended at an await and the suspended one goes on.
Switch ==
    /\ Concurrent /\ AtAwait /\ parked.active
    /\ parked' = Running
    /\ ppc' = parked.ppc
    /\ pm' = parked.pm
    /\ pending' = parked.pending
    /\ tidx' = parked.tidx
    /\ results' = parked.results
    /\ obs' = parked.obs
    /\ UNCHANGED <<mode, regVars, streamVars, multiVars, sessions, ret, request, nresp,
                   ncalls, pturns, ntools>>

\* The running call has returned and the suspended one goes on.
Resume ==
    /\ Concurrent /\ ppc = "idle" /\ parked.active
    /\ parked' = NoCall
    /\ ppc' = parked.ppc
    /\ pm' = parked.pm
    /\ pending' = parked.pending
    /\ tidx' = parked.tidx
    /\ results' = parked.results
    /\ obs' = parked.obs
    /\ UNCHANGED <<mode, regVars, streamVars, multiVars, sessions, ret, request, nresp,
                   ncalls, pturns, ntools>>

\* The caller cancels the task of the running call while it waits at an
\* await.  CancelledError is raised there; it is a BaseException, so neither
\* the except clause of line 239 nor the one of line 165 catches it, and it
\* leaves process_message: nothing is appended and nothing is returned.
Cancel ==
    /\ mode = "parallel" /\ AtAwait
    /\ ppc' = "idle"
    /\ IF ppc = "loop"
       THEN /\ pm' = [pm EXCEPT !.iteration = @ + 1]
            /\ obs' = [obs EXCEPT !.model_calls = @ + 1,
                                  !.outcome = "CANCELLED",
                                  !.cause = "aresponses"]
            /\ request' = Kwargs
            /\ ncalls' = ncalls + 1
            /\ UNCHANGED ntools
       ELSE /\ obs' = [obs EXCEPT
                         !.invoked = @ \o
                             <<<<obs.tool_rounds + 1, pending[tidx].call_id,
                                 pending[tidx].name>>>>,
                         !.outcome = "CANCELLED",
                         !.cause = "tool"]
            /\ ntools' = ntools + 1
            /\ UNCHANGED <<pm, request, ncalls>>
    /\ UNCHANGED <<mode, regVars, streamVars, multiVars, sessions, pending, tidx,
                   results, ret, nresp, pturns, parked>>

\* get_session_history: the messages of the session, or None.
get_session_history(ss, sid) ==
    IF sid \in DOMAIN ss THEN [found |-> TRUE, messages |-> ss[sid].messages]
    ELSE [found |-> FALSE, messages |-> <<>>]

\* clear_session emptying the whole session map.
clear_session_All(ss, sid) ==
    IF sid \in DOMAIN ss THEN [x \in {} |-> NewConversationState] ELSE ss

\* clear_session: the session map afterwards.
clear_session(ss, sid) ==
    IF sid \in DOMAIN ss THEN [x \in DOMAIN ss \ {sid} |-> ss[x]] ELSE ss

\* The caller clears a session, known or not, while no call is running.
ClearSession ==
    /\ mode = "shared" /\ ppc = "idle" /\ ~parked.active
    /\ \E sid \in SessionIds : sessions' = clear_session(sessions, sid)
    /\ UNCHANGED <<mode, regVars, streamVars, multiVars, ppc, pm, pending, tidx,
                   results, ret, obs, request, nresp, ncalls, pturns, ntools,
                   parked>>

---------------------------------------------------------------------------
\* ToolHandler and multi_step_tool_calling

max_iterations == 5

\* execute_tool without the registry check: the lookup self.tools[tool_name]
\* raises KeyError inside the try.
execute_tool_NoCheck(tool_name, arguments) ==
    IF tool_name \notin DOMAIN registry.tools
    THEN [result  |-> [is_error |-> TRUE,
                       value |-> "Tool execution failed: " \o tool_name],
          invoked |-> FALSE]
    ELSE LET c == RunCallable(registry.tools[tool_name], arguments)
         IN  IF c.raised
             THEN [result  |-> [is_error |-> TRUE,
                                value |-> "Tool execution failed: " \o c.value],
                   invoked |-> c.invoked]
             ELSE [result  |-> [is_error |-> FALSE, value |-> c.value],
                   invoked |-> c.invoked]

\* ToolHandler.execute_tool: the dict returned, and whether the callable ran.
execute_tool(tool_name, arguments) ==
    IF tool_name \notin DOMAIN registry.tools
    THEN [result  |-> [is_error |-> TRUE,
                       value |-> "Unknown tool: " \o tool_name],
          invoked |-> FALSE]
    ELSE LET c == RunCallable(registry.tools[tool_name], arguments)
         IN  IF c.raised
             THEN [result  |-> [is_error |-> TRUE,
                                value |-> "Tool execution failed: " \o c.value],
                   invoked |-> c.invoked]
             ELSE [result  |-> [is_error |-> FALSE, value |-> c.value],
                   invoked |-> c.invoked]

NoMultiObs ==
    [model_calls |-> 0, tool_responses |-> 0, tool_rounds |-> 0,
     executed |-> <<>>,
     invoked |-> <<>>, outcome |-> "none", cause |-> "none"]

\* One iteration of the while loop up to the tool loop: acompletion returns,
\* the assistant message is appended, and the loop breaks on no tool calls.
\* (A message with tool calls is taken to have no text content.)
AcompletionReturns ==
    /\ mode = "multi" /\ mpc = "loop" /\ iteration < max_iterations
    /\ \E content \in Texts, tcs \in NamedBatches(1 + MaxExtraCalls - mextra) :
        LET tool_calls == WithCallIds(tcs)
        IN  /\ (tcs # <<>> => content = "")
            /\ messages' = Append(messages,
                               [role |-> "assistant", content |-> content,
                                tool_calls |-> tool_calls])
            /\ mpending' = tool_calls
            /\ mextra' = IF Len(tool_calls) > 1
                         THEN mextra + Len(tool_calls) - 1 ELSE mextra
            /\ IF tool_calls # <<>>
               THEN /\ mpc' = "tools"
                    /\ mobs' = [mobs EXCEPT !.model_calls = @ + 1,
                                            !.tool_responses = @ + 1]
               ELSE /\ mpc' = "returned"
                    /\ mobs' = [mobs EXCEPT !.model_calls = @ + 1,
                                            !.outcome = "TERMINAL_TEXT"]
    /\ iteration' = iteration + 1
    /\ midx' = 1
    /\ UNCHANGED <<mode, regVars, streamVars, convVars>>

\* acompletion raises: nothing catches it.
AcompletionRaises ==
    /\ mode = "multi" /\ mpc = "loop" /\ iteration < max_iterations
    /\ iteration' = iteration + 1
    /\ mpc' = "raised"
    /\ mobs' = [mobs EXCEPT !.model_calls = @ + 1, !.outcome = "RAISED",
                            !.cause = "acompletion"]
    /\ UNCHANGED <<mode, regVars, streamVars, convVars, messages, mpending, midx, mextra>>

\* One iteration of the loop over message.tool_calls (lines 327-341):
\* json.loads, execute_tool, json.dumps, the tool message appended.
ExecuteToolCall ==
    /\ mode = "multi" /\ mpc = "tools" /\ midx <= Len(mpending)
    /\ LET tool_call == mpending[midx]
           parsed == JsonLoads(tool_call.arguments)
           r == execute_tool(tool_call.name, parsed.value)
           dumped == JsonDumps(r.result)
           ran == [mobs EXCEPT
                     !.executed = Append(@, tool_call.call_id),
                     !.invoked = IF r.invoked
                                 THEN Append(@, <<tool_call.call_id,
                                                  tool_call.name>>)
                                 ELSE @]
       IN  IF ~parsed.ok
           THEN /\ mpc' = "raised"
                /\ mobs' = [mobs EXCEPT !.outcome = "RAISED",
                                        !.cause = "json.loads"]
                /\ UNCHANGED <<messages, midx>>
           ELSE IF ~dumped.ok
           THEN /\ mpc' = "raised"
                /\ mobs' = [ran EXCEPT !.outcome = "RAISED",
                                       !.cause = "json.dumps"]
                /\ UNCHANGED <<messages, midx>>
           ELSE /\ messages' = Append(messages,
                                  [role |-> "tool",
                                   tool_call_id |-> tool_call.call_id,
                                   content |-> dumped.text])
                /\ midx' = midx + 1
                /\ mobs' = ran
                /\ UNCHANGED mpc
    /\ UNCHANGED <<mode, regVars, streamVars, convVars, iteration, mpending, mextra>>

\* The loop over message.tool_calls is over: back to the while condition.
ToolCallsDone ==
    /\ mode = "multi" /\ mpc = "tools" /\ LoopOver(mpending, midx)
    /\ mpc' = "loop"
    /\ mobs' = [mobs EXCEPT !.tool_rounds = @ + 1]
    /\ UNCHANGED <<mode, regVars, streamVars, convVars, messages, iteration, mpending,
                   midx, mextra>>

\* The while condition fails after max_iterations iterations.
MultiLoopExhausted ==
    /\ mode = "multi" /\ mpc = "loop" /\ iteration >= max_iterations
    /\ mpc' = "returned"
    /\ mobs' = [mobs EXCEPT !.outcome = "ITERATION_LIMIT_REACHED"]
    /\ UNCHANGED <<mode, regVars, streamVars, convVars, messages, iteration, mpending,
                   midx, mextra>>

---------------------------------------------------------------------------
Init ==
    /\ mode \in {"stream", "turns", "stateful", "parallel", "shared", "multi",
                "registry"}
    /\ registry \in IF mode = "registry"
                    THEN {EmptyRegistry(h) : h \in Handlers}
                    ELSE {DefaultRegistry(HandlerOf(mode))}
    /\ lastreg = NoRegistration
    /\ current_tool_calls = <<>>
    /\ spc = "idle"
    /\ sidx = 1
    /\ events = <<>>
    /\ progress = NoProgress
    /\ fed = [i \in CallIds |-> NoText]
    /\ touched = {}
    /\ sinvoked = <<>>
    /\ sturns = 0
    /\ nfrags = 0
    /\ srun = NotIterating(0)
    /\ sparked = NoTurn
    /\ sessions = [x \in {} |-> NewConversationState]
    /\ ppc = "idle"
    /\ pm = NoLocals
    /\ pending = <<>>
    /\ tidx = 1
    /\ results = <<>>
    /\ ret = [response |-> "", session_id |-> NoId, iterations |-> 0,
              tool_calls |-> 0, response_id |-> NoId]
    /\ obs = NoObs
    /\ request = [input |-> [kind |-> "text", items |-> <<>>],
                  tools |-> ToolsArg(<<>>),
                  previous_response_id |-> NoId]
    /\ nresp = 0
    /\ ncalls = 0
    /\ pturns = 0
    /\ ntools = 0
    /\ parked = NoCall
    /\ messages = <<[role |-> "system", content |-> "system prompt"],
                    [role |-> "user", content |-> "user request"]>>
    /\ mpc = "loop"
    /\ iteration = 0
    /\ mpending = <<>>
    /\ midx = 1
    /\ mobs = NoMultiObs
    /\ mextra = 0

Next ==
    \/ StreamBegin
    \/ StreamBeginRaises
    \/ ProcessTextChunk
    \/ ProcessDeltaChunk
    \/ StreamRaises
    \/ StreamEnds
    \/ ExecutePendingTool
    \/ PendingDone
    \/ PendingRaises
    \/ SuspendTurn
    \/ SwitchTurn
    \/ ResumeTurn
    \/ ProcessMessageBegin
    \/ AresponsesReturns
    \/ AresponsesRaises
    \/ ExecuteTool
    \/ ExecuteToolsReturns
    \/ LoopExhausted
    \/ Suspend
    \/ Switch
    \/ Resume
    \/ Cancel
    \/ ClearSession
    \/ AcompletionReturns
    \/ AcompletionRaises
    \/ ExecuteToolCall
    \/ ToolCallsDone
    \/ MultiLoopExhausted
    \/ RegisterTool

Spec == Init /\ [][Next]_vars

\* The behaviours of Spec that run StreamingToolHandler.
StreamInit == Init /\ mode = "stream"

StreamNext ==
    \/ StreamBegin
    \/ StreamBeginRaises
    \/ ProcessTextChunk
    \/ ProcessDeltaChunk
    \/ StreamRaises
    \/ StreamEnds
    \/ ExecutePendingTool
    \/ PendingDone

StreamSpec == StreamInit /\ [][StreamNext]_vars

\* The behaviours of Spec that run StatefulConversationHandler or register
\* tools on a new handler.
HandlerInit ==
    Init /\ mode \in {"stateful", "parallel", "shared", "registry"}

HandlerNext ==
    \/ ProcessMessageBegin
    \/ AresponsesReturns
    \/ AresponsesRaises
    \/ ExecuteTool
    \/ ExecuteToolsReturns
    \/ LoopExhausted
    \/ Suspend
    \/ Switch
    \/ Resume
    \/ Cancel
    \/ ClearSession
    \/ RegisterTool

HandlerSpec == HandlerInit /\ [][HandlerNext]_vars

\* process_message driven by one call at a time.
SequentialNext ==
    \/ ProcessMessageBegin
    \/ AresponsesReturns
    \/ AresponsesRaises
    \/ ExecuteTool
    \/ ExecuteToolsReturns
    \/ LoopExhausted

\* The behaviours of Spec that run one of the two tool loops,
\* process_message one call at a time or multi_step_tool_calling.
LoopInit == Init /\ mode \in {"stateful", "multi"}

LoopNext ==
    \/ SequentialNext
    \/ AcompletionReturns
    \/ AcompletionRaises
    \/ ExecuteToolCall
    \/ ToolCallsDone
    \/ MultiLoopExhausted

LoopSpec == LoopInit /\ [][LoopNext]_vars

\* The behaviours of Spec that run one of the two batch executors,
\* _execute_pending_tools or _execute_tools (process_message one call at a
\* time).
ExecutorInit == Init /\ mode \in {"stream", "stateful"}

ExecutorNext == StreamNext \/ SequentialNext

ExecutorSpec == ExecutorInit /\ [][ExecutorNext]_vars

---------------------------------------------------------------------------
\* Claims

\* C1: at end of stream, the argument text accumulated for every call
\* identifier that received fragments in the turn equals the concatenation,
\* in arrival order, of the argument chunks fed for that identifier in the turn.
C1_ReassemblyLossless ==
    (mode = "stream" /\ spc = "executing") =>
        \A k \in 1..Len(current_tool_calls) :
            current_tool_calls[k].id \in touched =>
                current_tool_calls[k].arguments = fed[current_tool_calls[k].id]

\* TOOL_RESULT events of the current turn that carry call identifier i.
ResultsFor(i) ==
    {j \in 1..Len(events) : events[j].type = "TOOL_RESULT" /\ events[j].id = i}

\* C2: every TOOL_CALL_END event of a streaming turn comes with exactly one
\* TOOL_RESULT event of that turn carrying the same call identifier, whatever
\* the tool name and the argument text.
C2_ExactlyOneResult ==
    mode = "stream" =>
        \A k \in 1..Len(events) :
            events[k].type = "TOOL_CALL_END" =>
                Cardinality(ResultsFor(events[k].id)) = 1

\* C3: _execute_tools returns one result per tool call, the k-th result
\* carrying the call identifier of the k-th call, and every call identifier
\* of the batch in exactly one result.
C3_OneResultPerCall ==
    (mode = "stateful" /\ ppc = "tools" /\ tidx > Len(pending)) =>
        /\ Len(results) = Len(pending)
        /\ \A k \in 1..Len(pending) :
            /\ k <= Len(results)
            /\ results[k].call_id = pending[k].call_id
            /\ Cardinality({j \in 1..Len(results) :
                              results[j].call_id = pending[k].call_id}) = 1

\* A batch of two calls, a raising tool then an unknown tool, has returned.
C3_Witness ==
    /\ mode = "stateful" /\ ppc = "tools" /\ tidx > Len(pending)
    /\ Len(pending) = 2
    /\ pending[1].name = "boom" /\ pending[1].arguments = <<"{", "}">>
    /\ pending[2].name = "ghost"

\* Events and invocations of the first n iterations of _execute_pending_tools,
\* each pending call taken on its own.
RECURSIVE EventsAlone(_, _)
EventsAlone(d, n) ==
    IF n = 0 THEN <<>>
    ELSE EventsAlone(d, n - 1) \o ExecutePending(d[n]).events

RECURSIVE InvokedAlone(_, _)
InvokedAlone(d, n) ==
    IF n = 0 THEN <<>>
    ELSE InvokedAlone(d, n - 1) \o ExecutePending(d[n]).invoked

\* Callables the current round of _execute_tools ran for call identifier i.
InvokedInRound(i) ==
    SelectSeq(obs.invoked, LAMBDA e : e[1] = obs.tool_rounds + 1 /\ e[2] = i)

\* C4: when a batch loop is over, every call of the batch was processed and
\* has the result, and the invocation, it has as a batch of one, whatever the
\* other calls of the batch did (raise included); in _execute_tools and in
\* _execute_pending_tools.
C4_RaiseLeavesSiblingsAlone ==
    /\ (mode = "stateful" /\ ppc = "tools" /\ tidx > Len(pending)) =>
        \A k \in 1..Len(pending) :
            /\ k <= Len(results)
            /\ <<results[k]>> = ExecuteOne(pending[k], <<>>).results
            /\ Len(InvokedInRound(pending[k].call_id))
                   = Len(ExecuteOne(pending[k], <<>>).invoked)
    /\ (mode = "stream" /\ spc = "executing"
            /\ sidx > Len(current_tool_calls)) =>
        /\ events = EventsAlone(current_tool_calls, Len(current_tool_calls))
        /\ sinvoked = InvokedAlone(current_tool_calls, Len(current_tool_calls))

\* A batch whose first call raised and whose second call succeeded has been
\* executed by _execute_tools.
C4_Witness ==
    /\ mode = "stateful" /\ ppc = "tools" /\ tidx > Len(pending)
    /\ Len(pending) = 2 /\ Len(results) = 2
    /\ pending[1].name = "boom" /\ results[1].success = "false"
    /\ Len(InvokedInRound(pending[1].call_id)) = 1
    /\ pending[2].name = "ok" /\ results[2].success = "true"

\* The tool call names a registered callable that raises when it is run.
CallableRaises(tc) ==
    /\ tc.name \in tools
    /\ CallTool(tc.name, "dict").invoked
    /\ CallTool(tc.name, "dict").raised

\* The tool message multi_step_tool_calling appended for the k-th call of the
\* current iteration (k < midx).
ToolMessage(k) == messages[Len(messages) - (midx - 1) + k]

\* C5: a registered callable that raises yields a failure result that carries
\* the exception's message (in _execute_tools: success False and the message
\* as error; from execute_tool: the error "Tool execution failed: <message>"),
\* and the exception goes no further: the loop moves on to the next call.
C5_RaiseBecomesFailureResult ==
    /\ (mode = "stateful" /\ ppc = "tools") =>
        /\ Len(results) = tidx - 1
        /\ \A k \in 1..Len(results) :
            (CallableRaises(pending[k])
                /\ pending[k].arguments \in {NoText, <<"{", "}">>}) =>
                results[k] = [call_id |-> pending[k].call_id,
                              tool    |-> pending[k].name,
                              success |-> "false",
                              result  |-> [is_error |-> TRUE,
                                           value |-> "boom failed"]]
    /\ (mode = "multi" /\ mpc = "tools") =>
        \A k \in 1..(midx - 1) :
            (CallableRaises(mpending[k])
                /\ mpending[k].arguments = <<"{", "}">>) =>
                ToolMessage(k) =
                    [role |-> "tool",
                     tool_call_id |-> mpending[k].call_id,
                     content |->
                       "{\"error\": \"Tool execution failed: boom failed\"}"]
    /\ (mode = "multi" /\ mpc = "raised" /\ mobs.cause # "acompletion") =>
        ~(CallableRaises(mpending[midx])
            /\ mpending[midx].arguments = <<"{", "}">>)

\* execute_tool has returned for a raising callable, and the loop of
\* multi_step_tool_calling has moved on to the second call of the batch.
C5_Witness ==
    /\ mode = "multi" /\ mpc = "tools" /\ midx = 2 /\ Len(mpending) = 2
    /\ mpending[1].name = "boom" /\ mpending[1].arguments = <<"{", "}">>
    /\ <<mpending[1].call_id, "boom">> = mobs.invoked[Len(mobs.invoked)]

\* C6: a tool call whose name is not registered yields the failure result
\* "Unknown tool: <name>" for that call, runs no callable and raises nothing,
\* and the loop goes on with the remaining calls; in _execute_tools and from
\* execute_tool.
C6_UnknownToolIsLocalFailure ==
    /\ (mode = "stateful" /\ ppc = "tools") =>
        /\ Len(results) = tidx - 1
        /\ \A k \in 1..Len(results) :
            pending[k].name \notin tools =>
                /\ results[k] = [call_id |-> pending[k].call_id,
                                 tool    |-> Absent,
                                 success |-> Absent,
                                 result  |-> [is_error |-> TRUE,
                                              value |-> "Unknown tool: "
                                                        \o pending[k].name]]
                /\ InvokedInRound(pending[k].call_id) = <<>>
    /\ (mode = "multi" /\ mpc = "tools") =>
        \A k \in 1..(midx - 1) :
            mpending[k].name \notin tools =>
                ToolMessage(k) =
                    [role |-> "tool",
                     tool_call_id |-> mpending[k].call_id,
                     content |-> "{\"error\": \"Unknown tool: "
                                 \o mpending[k].name \o "\"}"]
    /\ mode = "multi" =>
        /\ \A j \in 1..Len(mobs.invoked) : mobs.invoked[j][2] \in tools
        /\ (mpc = "raised" /\ mobs.cause = "json.dumps") =>
               mpending[midx].name \in tools

\* _execute_tools met an unknown tool first and then ran the second call.
C6_Witness ==
    /\ mode = "stateful" /\ ppc = "tools" /\ tidx > Len(pending)
    /\ Len(pending) = 2
    /\ pending[1].name = "ghost" /\ pending[1].arguments = <<"{">>
    /\ results[1].success = Absent
    /\ results[2].success = "true"

\* C7: a tool call whose argument text is not valid JSON is recorded as a
\* failed result, and no exception leaves the tool-execution step; in the
\* streaming handler, the stateful handler and the multi-step loop.
C7_BadJsonIsToolFailure ==
    /\ mode = "stream" =>
        \A k \in 1..Len(events) :
            (events[k].type = "TOOL_CALL_END"
                /\ ~JsonLoads(events[k].data.arguments).ok) =>
                \E j \in ResultsFor(events[k].id) :
                    events[j].data.success = FALSE
    /\ (mode = "stateful" /\ ppc = "tools") =>
        \A k \in 1..Len(results) :
            ~JsonLoads(pending[k].arguments).ok => results[k].result.is_error
    /\ mode = "multi" => ~(mpc = "raised" /\ mobs.cause = "json.loads")

\* C8: a process_message turn ends in the error outcome only when the model
\* call itself failed.
C8_ErrorOnlyFromModelCall ==
    (mode = "stateful" /\ obs.outcome = "TERMINAL_ERROR") =>
        obs.cause = "aresponses"

\* C9: a turn in which every model call returned a response with at least one
\* tool call makes exactly max_iterations model calls and tool rounds and then
\* ends at the iteration limit, without raising; in process_message and in
\* multi_step_tool_calling.
C9_LimitReachedExactlyAtBound ==
    /\ mode = "stateful" =>
        /\ obs.model_calls <= pm.max_iterations
        /\ obs.tool_rounds <= pm.max_iterations
        /\ (ppc = "idle" /\ obs.outcome # "none"
                /\ obs.tool_responses = obs.model_calls) =>
            /\ obs.outcome = "ITERATION_LIMIT_REACHED"
            /\ obs.model_calls = pm.max_iterations
            /\ obs.tool_rounds = pm.max_iterations
    /\ mode = "multi" =>
        /\ mobs.model_calls <= max_iterations
        /\ mobs.tool_rounds <= max_iterations
        /\ (mpc \in {"returned", "raised"}
                /\ mobs.tool_responses = mobs.model_calls) =>
            /\ mobs.outcome = "ITERATION_LIMIT_REACHED"
            /\ mobs.model_calls = max_iterations
            /\ mobs.tool_rounds = max_iterations

\* The last message of the session of the running (last) turn.
LastMessage ==
    LET ms == sessions[pm.session_id].messages IN ms[Len(ms)]

\* C10: when the first response of a turn has no tool call and non-empty
\* text, the turn is over after that one model call: it ended with the text
\* answer, reports iterations = 1, ran no tool, and the text is the assistant
\* message saved in the session.
C10_TextAnswerInOneRound ==
    (mode = "stateful" /\ obs.first.present /\ obs.first.tool_calls = 0
        /\ obs.first.text # "") =>
        /\ ppc = "idle"
        /\ obs.outcome = "TERMINAL_TEXT"
        /\ obs.model_calls = 1
        /\ obs.tool_rounds = 0 /\ obs.invoked = <<>>
        /\ ret.iterations = 1 /\ ret.tool_calls = 0
        /\ ret.response = obs.first.text
        /\ LastMessage = [role |-> "assistant", content |-> obs.first.text,
                          tool_calls |-> <<>>]

\* A second turn on a session answered with text by its first response.
C10_Witness ==
    /\ mode = "stateful" /\ ppc = "idle"
    /\ obs.first.present /\ obs.first.tool_calls = 0 /\ obs.first.text = "hi"
    /\ Len(sessions[pm.session_id].messages) = 4

\* C11: once the model call of a turn has raised, the turn is over: it ended
\* in the error outcome and returned (nothing was raised), the failed call is
\* the last model call of the turn, the error text is the response returned
\* and the assistant message saved; the step that follows makes no model call
\* and executes no tool.
C11_ModelFailureEndsTurn ==
    /\ [](mode = "stateful" /\ obs.cause = "aresponses" =>
            /\ ppc = "idle"
            /\ obs.outcome = "TERMINAL_ERROR"
            /\ ret.iterations = obs.model_calls
            /\ ret.response = "Error processing message: model call failed"
            /\ LastMessage.role = "assistant"
            /\ LastMessage.content = ret.response)
    /\ [][(mode = "stateful" /\ obs.cause = "aresponses") =>
            /\ ncalls' = ncalls /\ ntools' = ntools]_vars

\* aresponses raised in the second iteration of a turn, after a tool round.
C11_Witness ==
    /\ mode = "stateful" /\ obs.cause = "aresponses"
    /\ obs.model_calls = 2 /\ obs.tool_rounds = 1

\* C12: the result returned by a turn that ended at the iteration bound
\* differs from the result of every turn that ended with a text answer and of
\* every turn that ended in the error outcome: its response is empty, theirs
\* never is.
C12_LimitResultIsDistinct ==
    (mode = "stateful" /\ ppc = "idle") =>
        /\ obs.outcome = "ITERATION_LIMIT_REACHED" => ret.response = ""
        /\ obs.outcome \in {"TERMINAL_TEXT", "TERMINAL_ERROR"} =>
               ret.response # ""

\* A turn with a bound of two iterations has ended at the bound.
C12_Witness ==
    /\ mode = "stateful" /\ ppc = "idle"
    /\ obs.outcome = "ITERATION_LIMIT_REACHED"
    /\ ret.iterations = 2 /\ ret.tool_calls = 2

\* C13: when a tool round of process_message is over, the session's tool-call
\* history has grown by exactly the number of tool calls of the round.
C13_HistoryGrowsByRound ==
    (mode = "stateful" /\ ppc = "tools" /\ tidx > Len(pending)) =>
        Len(sessions[pm.session_id].tool_calls_history)
            = obs.hist0 + Len(pending)

\* C14: whenever a model call can be issued, every tool call of the round
\* before it has been executed: the loop over the calls is at its end and
\* every call has its result (process_message) or its tool message
\* (multi_step_tool_calling).
C14_JoinBarrier ==
    /\ (mode = "stateful" /\ ppc = "loop") =>
        /\ tidx > Len(pending)
        /\ Len(results) = Len(pending)
    /\ (mode = "multi" /\ mpc = "loop") =>
        /\ midx > Len(mpending)
        /\ Len(mobs.executed) >= Len(mpending)
        /\ \A k \in 1..Len(mpending) :
            /\ messages[Len(messages) - Len(mpending) + k].role = "tool"
            /\ mobs.executed[Len(mobs.executed) - Len(mpending) + k]
                   = mpending[k].call_id

\* The second model call of a turn was issued after a round of two tool calls
\* of which the first had failed.
C14_Witness ==
    /\ mode = "stateful" /\ ppc = "idle"
    /\ obs.model_calls = 2 /\ obs.tool_rounds = 1
    /\ Len(pending) = 2 /\ Len(results) = 2
    /\ results[1].success = "false" /\ results[2].success = "true"

\* The JSON text that delivers a tool result to the model.
Delivered(result) ==
    IF result.is_error THEN "{\"error\": \"" \o result.value \o "\"}"
    ELSE "\"" \o result.value \o "\""

\* C15: when a model call follows a tool round, its input holds exactly one
\* output item per tool call of the round, in request order, each with the
\* call identifier of its call; the item of a failed call is the JSON text of
\* its error.  In process_message the input is kwargs["input"], in
\* multi_step_tool_calling it is the tool messages after the assistant message.
C15_NextInputCarriesEveryResult ==
    /\ (mode = "stateful" /\ ppc = "loop" /\ obs.tool_rounds > 0
            /\ pm.iteration < pm.max_iterations) =>
        /\ Kwargs.input.kind = "tool_outputs"
        /\ Len(Kwargs.input.items) = Len(pending)
        /\ \A k \in 1..Len(pending) :
            /\ Kwargs.input.items[k].type = "function_call_output"
            /\ Kwargs.input.items[k].call_id = pending[k].call_id
            /\ Kwargs.input.items[k].output =
                   Delivered(ExecuteOne(pending[k], <<>>).results[1].result)
    /\ (mode = "multi" /\ mpc = "loop" /\ mobs.tool_rounds > 0
            /\ iteration < max_iterations) =>
        /\ messages[Len(messages) - Len(mpending)].role = "assistant"
        /\ \A k \in 1..Len(mpending) :
            messages[Len(messages) - Len(mpending) + k] =
                [role |-> "tool",
                 tool_call_id |-> mpending[k].call_id,
                 content |-> Delivered(
                     execute_tool(mpending[k].name,
                                  JsonLoads(mpending[k].arguments).value)
                         .result)]

\* A round with an unknown tool and a raising tool is over and another model
\* call is due.
C15_Witness ==
    /\ mode = "stateful" /\ ppc = "loop" /\ obs.tool_rounds = 1
    /\ pm.iteration < pm.max_iterations
    /\ Len(pending) = 2
    /\ pending[1].name = "ghost" /\ pending[2].name = "boom"
    /\ Kwargs.input.items[2].output = "{\"error\": \"boom failed\"}"

\* C16: every aresponses call carries as previous_response_id the session's
\* last_response_id; a call that returns stores the identifier it returned
\* there; nothing else changes a session's last_response_id, and a new
\* session has none.  So every call carries the identifier returned by the
\* latest successful call of its session, across rounds and across turns.
C16_ContinuationChain ==
    [][mode = "stateful" =>
        /\ ncalls' = ncalls + 1 =>
               request'.previous_response_id
                   = sessions[pm.session_id].last_response_id
        /\ nresp' = nresp + 1 =>
               /\ ncalls' = ncalls + 1
               /\ sessions'[pm.session_id].last_response_id
                      = "resp_" \o ToString(nresp')
        /\ \A sid \in DOMAIN sessions :
               (nresp' = nresp \/ sid # pm.session_id) =>
                   /\ sid \in DOMAIN sessions'
                   /\ sessions'[sid].last_response_id
                          = sessions[sid].last_response_id
        /\ \A sid \in DOMAIN sessions' \ DOMAIN sessions :
               sessions'[sid].last_response_id = NoId]_vars

\* The first model call of a second turn on a session has carried the
\* identifier returned in the first turn.
C16_Witness ==
    /\ mode = "stateful" /\ pturns = 2 /\ ncalls = 2 /\ obs.model_calls = 1
    /\ DOMAIN sessions = {"s1"}
    /\ request.previous_response_id = "resp_1"

\* C17: between turns, which is where every stream_with_tools turn starts,
\* the buffer current_tool_calls is empty; and every call finalized or run in
\* a turn received a fragment in that turn.
C17_BufferEmptyAtTurnStart ==
    mode = "stream" =>
        /\ spc = "idle" => current_tool_calls = <<>>
        /\ \A k \in 1..Len(events) :
               events[k].type = "TOOL_CALL_END" => events[k].id \in touched
        /\ \A k \in 1..Len(sinvoked) : sinvoked[k][1] \in touched

\* C18: in one streaming turn there is at most one TOOL_CALL_END event and at
\* most one tool invocation per call identifier.
C18_FinalizedAtMostOnce ==
    mode = "stream" =>
        \A i \in CallIds :
            /\ Cardinality({k \in 1..Len(events) :
                   events[k].type = "TOOL_CALL_END" /\ events[k].id = i}) <= 1
            /\ Cardinality({k \in 1..Len(sinvoked) : sinvoked[k][1] = i}) <= 1

\* A call whose arguments came in two fragments was finalized and run, next
\* to a second call.
C18_Witness ==
    /\ mode = "stream" /\ spc = "executing"
    /\ sidx > Len(current_tool_calls) /\ Len(current_tool_calls) = 2
    /\ fed["c1"] = <<"{", "}">>
    /\ \E k \in 1..Len(sinvoked) : sinvoked[k][1] = "c1"

\* C19: a callable is invoked only for a tool call whose name is not empty and
\* whose argument text is well-formed JSON (the empty text is not); in
\* _execute_pending_tools and in _execute_tools.
C19_InvokedOnlyWhenValid ==
    /\ (mode = "stream" /\ spc = "executing") =>
        \A k \in 1..Len(current_tool_calls) :
            (\E j \in 1..Len(sinvoked) :
                 sinvoked[j][1] = current_tool_calls[k].id) =>
                /\ current_tool_calls[k].name # NoName
                /\ JsonLoads(current_tool_calls[k].arguments).ok
    /\ (mode = "stateful" /\ ppc = "tools") =>
        \A k \in 1..Len(pending) :
            InvokedInRound(pending[k].call_id) # <<>> =>
                /\ pending[k].name # NoName
                /\ JsonLoads(pending[k].arguments).ok

\* C20: while a process_message call on one session is suspended, the calls
\* that run on other sessions leave its session (messages, tool-call history,
\* last_response_id) as it was; and every step of a call leaves every session
\* other than its own unchanged.
C20_SessionsIndependent ==
    /\ [](mode = "parallel" /\ parked.active =>
            /\ parked.pm.session_id \in DOMAIN sessions
            /\ sessions[parked.pm.session_id] = parked.session)
    /\ [][Conversing /\ (ppc # "idle" \/ ppc' # "idle") =>
            \A sid \in DOMAIN sessions :
                sid # pm'.session_id =>
                    /\ sid \in DOMAIN sessions'
                    /\ sessions'[sid] = sessions[sid]]_vars

\* A call on one session is suspended inside its tool round while a call on
\* another session has run a tool, got a response id and returned.
C20_Witness ==
    /\ mode = "parallel" /\ parked.active /\ parked.ppc = "tools"
    /\ ppc = "idle" /\ obs.outcome # "none"
    /\ pm.session_id # parked.pm.session_id
    /\ Len(sessions[pm.session_id].tool_calls_history) > 0
    /\ sessions[pm.session_id].last_response_id # NoId
    /\ Len(sessions[pm.session_id].messages) = 2

---------------------------------------------------------------------------
\* The entry of identifier i before a fragment is applied: the stored entry,
\* or the one line 139 creates.
EntryBefore(d, i) ==
    IF IndexOf(d, i) = 0 THEN [id |-> i, name |-> NoName, arguments |-> NoText]
    ELSE d[IndexOf(d, i)]

\* C30 (as amended): wherever the stream may deliver a fragment, for every
\* fragment, _process_tool_call_delta ignores a fragment without identifier; otherwise
\* it keeps every stored entry of another identifier in place and unchanged,
\* adds at most the fragment's own entry, starting from the empty name and
\* the empty argument text, sets the name to the fragment's name token when
\* there is one and keeps it otherwise, and appends the fragment's argument
\* chunk (nothing when there is none) to the argument text: the name token
\* itself contributes nothing to the argument text, and applying a name-only
\* fragment twice is the same as applying it once.
C30_EntryUpdates ==
    (mode = "stream" /\ spc = "streaming" /\ nfrags < MaxFrags) =>
        \A delta \in Deltas :
            LET d == current_tool_calls
                e == ProcessToolCallDelta(d, delta)
                b == EntryBefore(d, delta.id)
                k == IndexOf(e, delta.id)
            IN  IF delta.id = NoId THEN e = d
                ELSE /\ Len(e) = (IF IndexOf(d, delta.id) = 0 THEN Len(d) + 1
                                  ELSE Len(d))
                     /\ k = (IF IndexOf(d, delta.id) = 0 THEN Len(d) + 1
                             ELSE IndexOf(d, delta.id))
                     /\ \A j \in 1..Len(d) : j # k => e[j] = d[j]
                     /\ e[k].id = delta.id
                     /\ e[k].name = (IF delta.name # NoName THEN delta.name
                                     ELSE b.name)
                     /\ e[k].arguments = b.arguments \o delta.arguments
                     /\ (delta.arguments = NoText =>
                            ProcessToolCallDelta(e, delta) = e)

\* C30 witness: the accumulator holds a named entry with argument text next
\* to the entry of another identifier, so fragments arrive for an existing
\* entry, for a sibling and for a new one.
C30_Witness ==
    /\ mode = "stream" /\ spc = "streaming"
    /\ Len(current_tool_calls) = 2
    /\ current_tool_calls[1].name # NoName
    /\ current_tool_calls[1].arguments # NoText

\* C30 as stated: a fragment that carries a name token leaves the argument
\* text of its entry as it was.
C30_NameFragmentKeepsArguments ==
    (mode = "stream" /\ spc = "streaming" /\ nfrags < MaxFrags) =>
        \A delta \in Deltas :
            (delta.id # NoId /\ delta.name # NoName) =>
                LET e == ProcessToolCallDelta(current_tool_calls, delta)
                IN  e[IndexOf(e, delta.id)].arguments
                        = EntryBefore(current_tool_calls, delta.id).arguments

---------------------------------------------------------------------------
\* C24: the session stays open after a turn has ended, however it ended.
\* While model calls remain, a further process_message is accepted between
\* turns; and a process_message on a session in use appends its user message
\* to the messages the session already has, leaves the tool-call history as
\* it is, continues from the session's continuation identifier, and starts
\* at the top of the loop with iteration 0, no response text and no tool
\* calls made.
C24_SessionStaysOpen ==
    /\ [](mode = "stateful" /\ ppc = "idle" /\ ncalls < MaxModelCalls
            => ENABLED ProcessMessageBegin)
    /\ [][(Conversing /\ pturns' = pturns + 1) =>
            LET sid == pm'.session_id
            IN  /\ ppc' = "loop"
                /\ pm'.iteration = 0
                /\ pm'.max_iterations >= 1
                /\ pm'.full_response = ""
                /\ pm'.tool_calls_made = <<>>
                /\ obs' = NoObs
                /\ sid \in DOMAIN sessions =>
                    /\ Len(sessions'[sid].messages)
                           = Len(sessions[sid].messages) + 1
                    /\ SubSeq(sessions'[sid].messages, 1,
                              Len(sessions[sid].messages))
                           = sessions[sid].messages
                    /\ sessions'[sid].messages[Len(sessions'[sid].messages)]
                           .role = "user"
                    /\ sessions'[sid].tool_calls_history
                           = sessions[sid].tool_calls_history
                    /\ pm'.current_response_id
                           = sessions[sid].last_response_id]_vars

\* C24 witness: a second turn has just begun on a session whose first turn
\* ran a tool and ended at the iteration limit.
C24_Witness ==
    /\ mode = "stateful" /\ ppc = "loop" /\ pm.iteration = 0
    /\ Len(sessions[pm.session_id].messages) = 3
    /\ sessions[pm.session_id].tool_calls_history # <<>>
    /\ ret.session_id = pm.session_id
    /\ ret.response = ""

---------------------------------------------------------------------------
\* C25 as stated: a turn never makes more than max_iterations model calls,
\* and a turn that has ended (every model call and tool call having returned
\* or raised) has ended in TERMINAL_TEXT, TERMINAL_ERROR or
\* ITERATION_LIMIT_REACHED, whatever the responses held.
C25_EndsInOneOfThree ==
    mode = "stateful" =>
        /\ obs.model_calls <= pm.max_iterations
        /\ pm.iteration = obs.model_calls
        /\ (ppc = "idle" /\ pturns > 0) =>
               obs.outcome \in {"TERMINAL_TEXT", "TERMINAL_ERROR",
                                "ITERATION_LIMIT_REACHED"}

---------------------------------------------------------------------------
\* C21 as stated: calls on one session are serialized.  In the messages of a
\* session every user message that is not the last message is followed by an
\* assistant message; and two calls on the same session that have both
\* started and made no model call yet do not hold the same continuation
\* identifier.
C21_SameSessionSerialized ==
    mode = "shared" =>
        /\ \A sid \in DOMAIN sessions :
              \A k \in 1..(Len(sessions[sid].messages) - 1) :
                 sessions[sid].messages[k].role = "user" =>
                    sessions[sid].messages[k + 1].role = "assistant"
        /\ (/\ parked.active /\ ppc # "idle"
            /\ parked.pm.session_id = pm.session_id
            /\ parked.pm.iteration = 0 /\ pm.iteration = 0) =>
               parked.pm.current_response_id # pm.current_response_id

---------------------------------------------------------------------------
\* C22 as stated: a turn cancelled while a tool call of its round is pending
\* leaves in its session neither a tool-call history entry nor the
\* continuation identifier of that round: both are as they were when the
\* round began.
C22_CancelledRoundLeavesNoEffect ==
    (/\ mode = "parallel" /\ ppc = "idle"
     /\ obs.outcome = "CANCELLED" /\ obs.cause = "tool") =>
        /\ sessions[pm.session_id].last_response_id = obs.rid0
        /\ Len(sessions[pm.session_id].tool_calls_history) = obs.hist0

---------------------------------------------------------------------------
\* C23: session lifecycle.  For every session map the handler reaches and
\* every identifier: get_or_create_session returns the stored state and
\* leaves the map as it is when the identifier is in use, and adds a state
\* without messages, history and continuation identifier when it is not;
\* clear_session removes that identifier and nothing else, and does nothing
\* for an unknown one; afterwards get_session_history finds nothing and the
\* next use starts from the fresh state.  And along every behaviour a session
\* leaves the map only by a clear_session for it, made between calls, and
\* enters it only as the fresh state of the call that first uses it.
C23_SessionLifecycle ==
    /\ [](Conversing =>
           \A sid \in SessionIds :
              LET c == clear_session(sessions, sid)
                  g == GetOrCreateSession(sessions, sid)
              IN  /\ sid \in DOMAIN g
                  /\ \A x \in DOMAIN sessions :
                        x \in DOMAIN g /\ g[x] = sessions[x]
                  /\ DOMAIN g = DOMAIN sessions \cup {sid}
                  /\ sid \notin DOMAIN sessions =>
                        /\ g[sid] = NewConversationState
                        /\ c = sessions
                        /\ ~get_session_history(sessions, sid).found
                  /\ sid \in DOMAIN sessions =>
                        /\ get_session_history(sessions, sid)
                              = [found |-> TRUE,
                                 messages |-> sessions[sid].messages]
                  /\ DOMAIN c = DOMAIN sessions \ {sid}
                  /\ \A x \in DOMAIN c : c[x] = sessions[x]
                  /\ ~get_session_history(c, sid).found
                  /\ GetOrCreateSession(c, sid)[sid] = NewConversationState)
    /\ [][Conversing =>
            /\ \A sid \in DOMAIN sessions \ DOMAIN sessions' :
                  /\ sessions' = clear_session(sessions, sid)
                  /\ DOMAIN sessions' = DOMAIN sessions \ {sid}
                  /\ \A x \in DOMAIN sessions' : sessions'[x] = sessions[x]
                  /\ ppc = "idle" /\ ppc' = "idle"
                  /\ pturns' = pturns /\ ncalls' = ncalls
            /\ \A sid \in DOMAIN sessions' \ DOMAIN sessions :
                  /\ pturns' = pturns + 1
                  /\ pm'.session_id = sid
                  /\ pm'.current_response_id = NoId
                  /\ sessions'[sid].last_response_id = NoId
                  /\ sessions'[sid].tool_calls_history = <<>>
                  /\ Len(sessions'[sid].messages) = 1
                  /\ sessions'[sid].messages[1].role = "user"]_vars

\* C23 witness: session s1 was used, cleared and is in use again: it holds
\* the user message of the second call alone and no continuation identifier.
C23_Witness ==
    /\ mode = "shared" /\ ppc = "loop"
    /\ "s1" \in DOMAIN sessions
    /\ pm.session_id = "s1"
    /\ Len(sessions["s1"].messages) = 1
    /\ sessions["s1"].messages[1].content = "message 2"
    /\ sessions["s1"].last_response_id = NoId
    /\ ret.session_id = "s1"

---------------------------------------------------------------------------
\* The schemas the registry holds under a name.
SchemasFor(reg, name) ==
    SelectSeq(reg.tool_schemas, LAMBDA s : s.name = name)

\* C26 as stated: after a register_tool call that returned, for schema S and
\* name T, the name resolves to the registered callable and the schema the
\* registry holds last under T, which it sends to the model, is S.
C26_RegistryRoundTrip ==
    (mode = "registry" /\ lastreg.n > 0 /\ ~lastreg.raised) =>
        /\ lastreg.name \in DOMAIN registry.tools
        /\ registry.tools[lastreg.name] = lastreg.func
        /\ SchemasFor(registry, lastreg.name) # <<>>
        /\ LET held == SchemasFor(registry, lastreg.name)
           IN  held[Len(held)] = lastreg.schema

---------------------------------------------------------------------------
\* What the registry stores for a schema: the schema, or its conversion.
Held(reg, schema) ==
    IF reg.handler = "StatefulConversationHandler"
    THEN ToResponsesFormat(schema)
    ELSE schema

\* C27: the schema list is in registration order and stable, and every
\* model call carries it.  A register_tool call leaves the entries the list
\* has where they are and adds at most one entry, at the end: for ToolHandler
\* and StreamingToolHandler the list grows by exactly the schema registered
\* (ToolHandler: unless the call raised), for StatefulConversationHandler by
\* the conversion of a chat-completions schema.  No other step changes the
\* list, and the kwargs of every aresponses call hold the whole list as it
\* is when the call is made, in the same order.
C27_SchemaListStable ==
    /\ [][/\ Len(registry'.tool_schemas) >= Len(registry.tool_schemas)
          /\ SubSeq(registry'.tool_schemas, 1, Len(registry.tool_schemas))
                = registry.tool_schemas
          /\ lastreg' # lastreg =>
                registry'.tool_schemas =
                    IF lastreg'.raised
                       \/ (registry.handler = "StatefulConversationHandler"
                           /\ lastreg'.schema.format # "chat")
                    THEN registry.tool_schemas
                    ELSE Append(registry.tool_schemas,
                                Held(registry, lastreg'.schema))
          /\ lastreg' = lastreg =>
                registry'.tool_schemas = registry.tool_schemas
          /\ (Conversing /\ ncalls' = ncalls + 1) =>
                /\ request'.tools.list = registry.tool_schemas
                /\ request'.tools.none = (registry.tool_schemas = <<>>)]_vars
    /\ [](lastreg.raised => registry.handler = "ToolHandler")

\* C27 witness: a second registration has been added behind the first one.
C27_Witness ==
    /\ mode = "registry" /\ registry.handler = "ToolHandler"
    /\ lastreg.n = 2
    /\ Len(registry.tool_schemas) = 2
    /\ registry.tool_schemas[1].name = "boom"
    /\ registry.tool_schemas[2] = lastreg.schema
    /\ lastreg.name = "ok"

---------------------------------------------------------------------------
\* C28 as stated: after a register_tool call of ToolHandler or
\* StreamingToolHandler under a name, present before or not, the name
\* resolves to the callable just registered and the schema list holds
\* exactly one schema with that name.
C28_OverwriteKeepsNamesUnique ==
    (/\ mode = "registry" /\ lastreg.n > 0 /\ ~lastreg.raised
     /\ registry.handler \in {"ToolHandler", "StreamingToolHandler"}) =>
        /\ registry.tools[lastreg.name] = lastreg.func
        /\ Len(SchemasFor(registry, lastreg.name)) = 1

---------------------------------------------------------------------------
\* C29: plain and coroutine functions are handled alike.  Wherever a tool
\* round is running, the executor gives for every body and every argument
\* value the same outcome for the plain function and for the coroutine
\* function (same value and success, or same failure) and never a coroutine
\* object as the value; every result recorded in the round for a registered
\* tool is the one the same body registered the other way would give; and
\* no TOOL_RESULT event of the streaming handler carries a coroutine object.
C29_SyncAsyncUniform ==
    /\ (mode = "stateful" /\ ppc = "tools") =>
          /\ \A func \in Funcs, args \in {"dict", "int"} :
                /\ RunCallable(func, args) = RunCallable(Twin(func), args)
                /\ RunCallable(func, args).value # "coroutine"
          /\ \A k \in 1..Len(results) :
                (results[k].tool \in DOMAIN registry.tools
                 /\ pending[k].arguments = <<"{", "}">>) =>
                   LET c == RunCallable(
                              Twin(registry.tools[results[k].tool]), "dict")
                   IN  /\ results[k].result.value = c.value
                       /\ results[k].result.is_error = c.raised
                       /\ results[k].success
                             = (IF c.raised THEN "false" ELSE "true")
    /\ (mode = "stream" /\ spc = "executing" /\ events # <<>>
        /\ events[Len(events)].type = "TOOL_RESULT") =>
          events[Len(events)].data.value # "coroutine"

\* C29 witness: in one round the handler has awaited the coroutine function
\* "ok" and called the plain function "boom".
C29_Witness ==
    /\ mode = "stateful" /\ ppc = "tools" /\ Len(results) = 2
    /\ results[1].tool = "ok" /\ results[1].success = "true"
    /\ iscoroutinefunction(registry.tools["ok"])
    /\ results[2].tool = "boom" /\ results[2].success = "false"
    /\ ~iscoroutinefunction(registry.tools["boom"])

---------------------------------------------------------------------------
\* The event finalizes a call or reports a tool result.
IsFinalization(e) == e.type \in {"TOOL_CALL_END", "TOOL_RESULT"}

\* C31: finalization happens only at end of stream.  While the stream of a
\* turn is being consumed the turn has yielded no TOOL_CALL_END and no
\* TOOL_RESULT event and has invoked no callable; TEXT, TOOL_CALL_START and
\* TOOL_CALL_ARGS events are yielded only while the stream is being consumed,
\* hence before every TOOL_CALL_END and TOOL_RESULT event of the turn; every
\* TOOL_RESULT event comes right after the TOOL_CALL_END event of its own
\* identifier; and a step that invokes a callable yields the TOOL_CALL_END of
\* that identifier, invokes, and yields its TOOL_RESULT, in this order and
\* with nothing in between.
C31_FinalizationAtEndOfStream ==
    /\ [](mode = "stream" /\ spc = "streaming" =>
            /\ \A k \in 1..Len(events) : ~IsFinalization(events[k])
            /\ sinvoked = <<>>)
    /\ [](mode = "stream" =>
            \A k \in 1..Len(events) :
                events[k].type = "TOOL_RESULT" =>
                    /\ k > 1
                    /\ events[k - 1].type = "TOOL_CALL_END"
                    /\ events[k - 1].id = events[k].id)
    /\ [][mode = "stream" /\ sturns' = sturns =>
            /\ progress' # progress =>
                   /\ spc = "streaming" /\ spc' = "streaming"
                   /\ events' = events
            /\ (\E k \in 1..Len(events') : IsFinalization(events'[k])) =>
                   progress' = progress
            /\ sinvoked' # sinvoked =>
                   /\ spc = "executing"
                   /\ Len(sinvoked') = Len(sinvoked) + 1
                   /\ Len(events') = Len(events) + 2
                   /\ events'[Len(events) + 1].type = "TOOL_CALL_END"
                   /\ events'[Len(events) + 1].id
                          = sinvoked'[Len(sinvoked')][1]
                   /\ events'[Len(events) + 2].type = "TOOL_RESULT"
                   /\ events'[Len(events) + 2].id
                          = sinvoked'[Len(sinvoked')][1]]_vars

\* After text and the fragments of a call, the stream has ended and the call
\* has been finalized, run and reported.
C31_Witness ==
    /\ mode = "stream" /\ spc = "executing"
    /\ progress.text /\ progress.started # {}
    /\ Len(sinvoked) = 1 /\ Len(events) = 2
    /\ events[1].type = "TOOL_CALL_END" /\ events[2].type = "TOOL_RESULT"

---------------------------------------------------------------------------
\* Positions of the END and ERROR events the current turn has yielded.
Terminals ==
    {k \in 1..Len(events) : events[k].type \in {"END", "ERROR"}}

---------------------------------------------------------------------------
\* TOOL_CALL_END events of the current turn that carry call identifier i.
EndsFor(i) ==
    {k \in 1..Len(events) :
        events[k].type = "TOOL_CALL_END" /\ events[k].id = i}

\* C33: when a streaming turn has ended with END, the argument text of every
\* TOOL_CALL_END event equals the concatenation, in emission order, of the
\* chunks of the TOOL_CALL_ARGS events yielded for its identifier, and every
\* identifier of a TOOL_CALL_START or TOOL_CALL_ARGS event of the turn, None
\* included, has a TOOL_CALL_END event.
C33_ProgressAgreesWithAccumulator ==
    (mode = "stream" /\ spc = "idle" /\ sturns > 0
        /\ events[Len(events)].type = "END") =>
        /\ \A k \in 1..Len(events) :
               events[k].type = "TOOL_CALL_END" =>
                   events[k].data.arguments = progress.args[events[k].id]
        /\ \A i \in {NoId} \cup CallIds :
               (i \in progress.started \/ progress.args[i] # NoText) =>
                   EndsFor(i) # {}

---------------------------------------------------------------------------
\* The first n messages of ms alternate user, assistant, starting with user.
Alternates(ms, n) ==
    \A k \in 1..n :
        ms[k].role = (IF k % 2 = 1 THEN "user" ELSE "assistant")

\* C34: with process_message calls made one after another, the messages of
\* every session alternate user, assistant, starting with user: between
\* calls every session ends with an assistant message, and during a call
\* only the session of the call is one user message ahead.  A step that
\* starts a call appends one user message to the session of the call, a
\* step that ends a call, however it ends, appends one assistant message to
\* it, every other step leaves its messages alone, and no step changes a
\* message that is already there or the messages of another session.
C34_MessagesAlternate ==
    /\ [](mode = "stateful" =>
            \A sid \in DOMAIN sessions :
                LET ms == sessions[sid].messages
                IN  /\ Alternates(ms, Len(ms))
                    /\ Len(ms) % 2 =
                           (IF ppc # "idle" /\ sid = pm.session_id THEN 1
                            ELSE 0))
    /\ [][mode = "stateful" =>
            /\ DOMAIN sessions \subseteq DOMAIN sessions'
            /\ \A sid \in DOMAIN sessions' :
                   LET old == IF sid \in DOMAIN sessions
                              THEN sessions[sid].messages ELSE <<>>
                       new == sessions'[sid].messages
                       grows == /\ sid = pm'.session_id
                                /\ (ppc = "idle") # (ppc' = "idle")
                   IN  /\ Len(new) = Len(old) + (IF grows THEN 1 ELSE 0)
                       /\ \A k \in 1..Len(old) : new[k] = old[k]]_vars

\* A second call on a session has ended at the iteration limit after the
\* first one ended with an error: the session holds four messages.
C34_Witness ==
    /\ mode = "stateful" /\ ppc = "idle"
    /\ obs.outcome = "ITERATION_LIMIT_REACHED"
    /\ Len(sessions[pm.session_id].messages) = 4
    /\ sessions[pm.session_id].messages[2].content
           = ErrorResponse("model call failed")
    /\ sessions[pm.session_id].messages[4].content = ""

---------------------------------------------------------------------------
\* C35: when a process_message turn has ended, every response of the turn
\* that requested tool calls was followed by a model call of the turn, the
\* call that carries the outputs of its tool round: the turn made more model
\* calls than it got responses with tool calls, so the response the
\* continuation identifier refers to has no tool call left unanswered.
\* (Turns that json.dumps ended are left aside: they are the case of C8.)
C35_ToolOutputsDelivered ==
    (mode = "stateful" /\ ppc = "idle" /\ obs.outcome # "none"
        /\ obs.cause # "json.dumps") =>
        (obs.tool_responses > 0 => obs.model_calls > obs.tool_responses)

---------------------------------------------------------------------------
\* C36: of two stream_with_tools turns that run concurrently on one handler,
\* each finalizes and runs only calls whose fragments arrived on its own
\* stream, and when it has ended with END it has finalized every one of
\* them; while a turn is suspended in its stream the calls it has
\* accumulated stay in the buffer; and no turn ends with the error of a dict
\* that changed size while the turn was iterating it.
C36_TurnsIsolated ==
    mode = "turns" =>
        /\ \A k \in 1..Len(events) :
               events[k].type = "TOOL_CALL_END" => events[k].id \in touched
        /\ \A k \in 1..Len(sinvoked) : sinvoked[k][1] \in touched
        /\ (spc = "idle" /\ events # <<>>
                /\ events[Len(events)].type = "END") =>
               \A i \in touched : EndsFor(i) # {}
        /\ (sparked.active /\ sparked.spc = "streaming") =>
               \A i \in sparked.touched : IndexOf(current_tool_calls, i) # 0
        /\ \A k \in 1..Len(events) :
               events[k].type = "ERROR" =>
                   events[k].data # "dictionary changed size during iteration"

---------------------------------------------------------------------------
\* What an executor does with one tool call: whether the callable is invoked,
\* how many results the call gets, and the kind of the result ("none" when
\* there is no result, "raised" when the executor itself raises).
Outcome(invoked, n, kind) == [invoked |-> invoked, results |-> n, kind |-> kind]

\* One iteration of the loop of multi_step_tool_calling (lines 327-341):
\* json.loads outside any try, execute_tool, json.dumps of its result.
ToolHandlerOutcome(tc) ==
    LET parsed == JsonLoads(tc.arguments)
        r == execute_tool(tc.name, parsed.value)
    IN  IF ~parsed.ok THEN Outcome(FALSE, 0, "raised")
        ELSE IF ~JsonDumps(r.result).ok THEN Outcome(r.invoked, 0, "raised")
        ELSE Outcome(r.invoked, 1,
                     IF r.result.is_error THEN "failure" ELSE "success")

\* One iteration of the loop of _execute_pending_tools.
StreamingOutcome(tc) ==
    LET r == ExecutePending([id |-> tc.call_id, name |-> tc.name,
                             arguments |-> tc.arguments])
        rs == SelectSeq(r.events, LAMBDA e : e.type = "TOOL_RESULT")
    IN  Outcome(r.invoked # <<>>, Len(rs),
                IF rs = <<>> THEN "none"
                ELSE IF rs[1].data.success THEN "success" ELSE "failure")

\* One iteration of the loop of _execute_tools.
StatefulOutcome(tc) ==
    LET r == ExecuteOne(tc, <<>>)
    IN  Outcome(r.invoked # <<>>, Len(r.results),
                IF r.results[1].result.is_error THEN "failure"
                ELSE "success")

\* C37: for every tool call that _execute_tools has executed, the three
\* executors, with the same callables registered, agree on whether the
\* callable is invoked, on the number of results of the call (one) and on
\* the kind of the result, success or failure; an unknown tool name and
\* empty argument text included.
C37_ExecutorsAgree ==
    (mode = "stateful" /\ ppc = "tools") =>
        \A k \in 1..Len(results) :
            pending[k].name # NoName =>
                /\ StatefulOutcome(pending[k]).results = 1
                /\ StreamingOutcome(pending[k]) = StatefulOutcome(pending[k])
                /\ ToolHandlerOutcome(pending[k])
                       = StatefulOutcome(pending[k])

---------------------------------------------------------------------------
\* The step ends a turn because a model call raised.
ModelCallRaised ==
    /\ ppc = "loop" /\ ppc' = "idle"
    /\ obs'.outcome = "TERMINAL_ERROR" /\ obs'.cause = "aresponses"

\* C38: a step that starts a turn leaves the continuation identifier and the
\* tool-call history of its session as they were and appends the user
\* message.  A step in which a model call raises appends one assistant message
\* with the error text to the session of the turn and changes nothing else
\* in any session: the continuation identifier and the tool-call history stay
\* as they were.  So after a turn whose first model call raised the
\* continuation identifier is the one the turn started from, and after a
\* turn in which a later model call raised it is the identifier of the last
\* response the turn received.
C38_FailedCallKeepsContinuation ==
    /\ [][mode = "stateful" /\ pturns' = pturns + 1 =>
            LET sid == pm'.session_id
                old == IF sid \in DOMAIN sessions THEN sessions[sid]
                       ELSE NewConversationState
            IN  /\ sessions'[sid].last_response_id = old.last_response_id
                /\ sessions'[sid].tool_calls_history = old.tool_calls_history
                /\ Len(sessions'[sid].messages) = Len(old.messages) + 1
                /\ pm'.current_response_id = old.last_response_id]_vars
    /\ [][mode = "stateful" /\ ModelCallRaised =>
            LET sid == pm.session_id
            IN  /\ sessions' = [sessions EXCEPT ![sid].messages =
                       Append(@, [role |-> "assistant",
                                  content |->
                                      ErrorResponse("model call failed"),
                                  tool_calls |-> pm.tool_calls_made])]
                /\ sessions'[sid].last_response_id
                       = sessions[sid].last_response_id
                /\ sessions'[sid].tool_calls_history
                       = sessions[sid].tool_calls_history]_vars
    /\ [](mode = "stateful" /\ ppc = "idle" /\ obs.outcome = "TERMINAL_ERROR"
              /\ obs.cause = "aresponses" =>
            /\ sessions[pm.session_id].last_response_id
                   = pm.current_response_id
            /\ ret.response_id = pm.current_response_id
            /\ obs.model_calls = 1 =>
                   /\ pm.tool_calls_made = <<>>
                   /\ pm.current_response_id = request.previous_response_id
            /\ obs.model_calls > 1 =>
                   pm.current_response_id = "resp_" \o ToString(nresp))

\* The second turn on a session has ended because its first model call
\* raised: the session still continues from the response of the first turn.
C38_Witness ==
    /\ mode = "stateful" /\ ppc = "idle" /\ pturns = 2
    /\ obs.outcome = "TERMINAL_ERROR" /\ obs.cause = "aresponses"
    /\ obs.model_calls = 1
    /\ Len(sessions[pm.session_id].messages) = 4
    /\ sessions[pm.session_id].last_response_id = "resp_1"

---------------------------------------------------------------------------
\* The tool names the schema list of the registry advertises.
AdvertisedNames(reg) ==
    {reg.tool_schemas[k].name : k \in 1..Len(reg.tool_schemas)}

\* C39: after any sequence of register_tool calls the names advertised in
\* the schema list of a handler are the names under which callables are
\* registered, and a register_tool call that raises leaves both the callable
\* map and the schema list as they were.
C39_RegistryConsistent ==
    /\ [](AdvertisedNames(registry) = DOMAIN registry.tools)
    /\ [][lastreg'.n = lastreg.n + 1 /\ lastreg'.raised =>
            registry' = registry]_vars

=============================================================================
